---- MODULE Spec2Model ----
(***************************************************************************)
(* Ingestion and entity-extraction pipeline of insights_project:           *)
(* the normalisation/upsert layer and save_video_to_db (ingest_video.py),  *)
(* the extraction engine and its cache (ingestion/extraction.py).          *)
(*                                                                         *)
(* Text is a sequence of one-character strings, so that strip() and        *)
(* lower() are computed character by character.  Python None and SQL NULL  *)
(* in a text position are the value None; in an id position they are 0     *)
(* (row ids start at 1, and the code tests ids for truth).                 *)
(***************************************************************************)
EXTENDS Integers, Sequences, FiniteSets, TLC

VARIABLES
    db,        \* the durable (committed) content of the SQLite file
    conn,      \* what the writer's connection sees: db plus its open transaction
    ncalls,    \* number of top-level calls made so far
    last,      \* the last top-level call and what it returned
    returned,  \* history: every (kind, normalised name, id) an upsert returned
    w,         \* concurrent writers, each on a connection of its own
    hin,       \* the transcripts handed to compute_transcript_hash
    hout,      \* the digests it returned for them
    pc,        \* where ingest_single_video / save_video_to_db stands
    loc,       \* its local variables
    hist,      \* history of the runs, kept for the properties
    chan,      \* where ingest_channel stands in its list of videos
    acq,       \* transcript acquisition: configuration, cache files, last call
    web,       \* the web application's request for a product page
    px,        \* the process-wide proxy pool and the threads that use it
    twin       \* two concurrent runs of ingest_single_video for one video

vars == <<db, conn, ncalls, last, returned, w, hin, hout, pc, loc, hist, chan, acq, web, px, twin>>

\* ------------------------------------------------------------------ text

None == <<"None">>

\* str.lower() of Python on one character (Unicode aware).
PyLowerChar(ch) ==
    CASE ch = "A" -> "a"
      [] ch = "B" -> "b"
      [] ch = "C" -> "c"
      [] ch = "P" -> "p"
      [] ch = "Q" -> "q"
      [] ch = "S" -> "s"
      [] ch = "É" -> "é"
      [] OTHER -> ch

\* lower() of SQLite on one character: ASCII letters only.
SqlLowerChar(ch) ==
    CASE ch = "A" -> "a"
      [] ch = "B" -> "b"
      [] ch = "C" -> "c"
      [] ch = "P" -> "p"
      [] ch = "Q" -> "q"
      [] ch = "S" -> "s"
      [] OTHER -> ch

IsSpace(ch) == ch \in {" ", "\n"}

RECURSIVE LStrip(_)
LStrip(s) ==
    IF s = <<>> THEN s
    ELSE IF IsSpace(Head(s)) THEN LStrip(Tail(s)) ELSE s

RECURSIVE RStrip(_)
RStrip(s) ==
    IF s = <<>> THEN s
    ELSE IF IsSpace(s[Len(s)]) THEN RStrip(SubSeq(s, 1, Len(s) - 1)) ELSE s

\* str.strip()
strip(s) == RStrip(LStrip(s))

\* str.lower()
lower(s) == [i \in 1..Len(s) |-> PyLowerChar(s[i])]

\* SQL lower(text)
sql_lower(s) == [i \in 1..Len(s) |-> SqlLowerChar(s[i])]

\* Python truth of a str | None
Falsy(s) == s = None \/ s = <<>>

\* (name or "").strip().lower()
normalize_name(name) == lower(strip(IF Falsy(name) THEN <<>> ELSE name))

\* F applied to the value of x, with x evaluated once.
Bind(x, F(_)) == CHOOSE r \in {F(v) : v \in {x}} : TRUE

\* Unicode code point of a character, for the characters the model uses.
CodePoint(ch) ==
    CASE ch = "\n" -> 10  [] ch = " " -> 32   [] ch = "\"" -> 34 [] ch = "." -> 46
      [] ch = "0" -> 48   [] ch = "1" -> 49   [] ch = "2" -> 50  [] ch = "3" -> 51
      [] ch = "4" -> 52   [] ch = "5" -> 53   [] ch = "6" -> 54  [] ch = "7" -> 55
      [] ch = "8" -> 56   [] ch = "9" -> 57   [] ch = ":" -> 58
      [] ch = "A" -> 65   [] ch = "B" -> 66   [] ch = "C" -> 67  [] ch = "P" -> 80
      [] ch = "Q" -> 81   [] ch = "S" -> 83   [] ch = "\\" -> 92
      [] ch = "a" -> 97   [] ch = "b" -> 98   [] ch = "c" -> 99  [] ch = "p" -> 112
      [] ch = "q" -> 113  [] ch = "s" -> 115  [] ch = "É" -> 201 [] ch = "é" -> 233

\* a < b for Python str: lexicographic by code point.
RECURSIVE StrLess(_, _)
StrLess(a, b) ==
    IF b = <<>> THEN FALSE
    ELSE IF a = <<>> THEN TRUE
    ELSE IF Head(a) = Head(b) THEN StrLess(Tail(a), Tail(b))
    ELSE CodePoint(Head(a)) < CodePoint(Head(b))

\* sorted(set_of_str)
RECURSIVE SortedStrs(_)
SortedStrs(S) ==
    IF S = {} THEN <<>>
    ELSE Bind(CHOOSE x \in S : \A y \in S \ {x} : StrLess(x, y), LAMBDA m :
            Bind(S \ {m}, LAMBDA rest : <<m>> \o SortedStrs(rest)))

\* ------------------------------------------------------------------ JSON

Chars(str) ==
    CASE str = "null" -> <<"n", "u", "l", "l">>
      [] str = "brand" -> <<"b", "r", "a", "n", "d">>
      [] str = "product" -> <<"p", "r", "o", "d", "u", "c", "t">>
      [] str = "u00c9" -> <<"u", "0", "0", "c", "9">>
      [] str = "u00e9" -> <<"u", "0", "0", "e", "9">>

\* json.dumps of one character inside a string (ensure_ascii is on).
JsonEscapeChar(ch) ==
    CASE ch = "\"" -> <<"\\", "\"">>
      [] ch = "\\" -> <<"\\", "\\">>
      [] ch = "\n" -> <<"\\", "n">>
      [] ch = "É" -> <<"\\">> \o Chars("u00c9")
      [] ch = "é" -> <<"\\">> \o Chars("u00e9")
      [] OTHER -> <<ch>>

RECURSIVE JsonEscape(_)
JsonEscape(s) == IF s = <<>> THEN <<>> ELSE JsonEscapeChar(Head(s)) \o JsonEscape(Tail(s))

\* json.dumps of a str or None
JsonStr(x) ==
    IF x = None THEN Chars("null") ELSE <<"\"">> \o JsonEscape(x) \o <<"\"">>

RECURSIVE JoinWith(_, _)
JoinWith(parts, sep) ==
    IF parts = <<>> THEN <<>>
    ELSE IF Len(parts) = 1 THEN parts[1]
    ELSE parts[1] \o sep \o JoinWith(Tail(parts), sep)

\* json.dumps(list of str)
json_dumps_names(names) ==
    <<"[">> \o JoinWith([i \in DOMAIN names |-> JsonStr(names[i])], <<",", " ">>) \o <<"]">>

\* json.dumps({"brand": ..., "product": ...})
JsonProduct(p) ==
    <<"{">> \o JsonStr(Chars("brand")) \o <<":", " ">> \o JsonStr(p.brand) \o <<",", " ">>
      \o JsonStr(Chars("product")) \o <<":", " ">> \o JsonStr(p.product) \o <<"}">>

\* json.dumps(list of product dicts)
json_dumps_products(products) ==
    <<"[">> \o JoinWith([i \in DOMAIN products |-> JsonProduct(products[i])], <<",", " ">>)
      \o <<"]">>

Parsed(ok, val, rest) == [ok |-> ok, val |-> val, rest |-> rest]

ParseFail == Parsed(FALSE, <<>>, <<>>)

StartsWith(cs, prefix) == Len(cs) >= Len(prefix) /\ SubSeq(cs, 1, Len(prefix)) = prefix

Drop(cs, n) == SubSeq(cs, n + 1, Len(cs))

\* The characters of a JSON string after its opening quote.
RECURSIVE ParseStrBody(_, _)
ParseStrBody(cs, acc) ==
    IF cs = <<>> THEN ParseFail
    ELSE IF Head(cs) = "\"" THEN Parsed(TRUE, acc, Tail(cs))
    ELSE IF Head(cs) = "\\"
         THEN LET r == Tail(cs)
              IN IF StartsWith(r, <<"\"">>) THEN ParseStrBody(Tail(r), Append(acc, "\""))
                 ELSE IF StartsWith(r, <<"\\">>) THEN ParseStrBody(Tail(r), Append(acc, "\\"))
                 ELSE IF StartsWith(r, <<"n">>) THEN ParseStrBody(Tail(r), Append(acc, "\n"))
                 ELSE IF StartsWith(r, Chars("u00c9")) THEN ParseStrBody(Drop(r, 5), Append(acc, "É"))
                 ELSE IF StartsWith(r, Chars("u00e9")) THEN ParseStrBody(Drop(r, 5), Append(acc, "é"))
                 ELSE ParseFail
    ELSE ParseStrBody(Tail(cs), Append(acc, Head(cs)))

\* A JSON string or null.
ParseStr(cs) ==
    IF StartsWith(cs, Chars("null")) THEN Parsed(TRUE, None, Drop(cs, 4))
    ELSE IF StartsWith(cs, <<"\"">>) THEN ParseStrBody(Tail(cs), <<>>)
    ELSE ParseFail

\* A parser state: the values read so far (val) and the text left (rest).
\* Expect consumes a fixed token, ThenStr reads a string or null.
Expect(p0, token) ==
    Bind(p0, LAMBDA p :
        IF p.ok /\ StartsWith(p.rest, token)
        THEN Parsed(TRUE, p.val, Drop(p.rest, Len(token)))
        ELSE ParseFail)

ThenStr(p0) ==
    Bind(p0, LAMBDA p :
        IF ~p.ok THEN ParseFail
        ELSE Bind(ParseStr(p.rest), LAMBDA r :
                IF r.ok THEN Parsed(TRUE, Append(p.val, r.val), r.rest) ELSE ParseFail))

\* {"brand": x, "product": y}: dict.get gives None for an absent key.
ParseProduct(cs) ==
    Bind(Expect(ThenStr(Expect(ThenStr(Expect(ThenStr(Expect(ThenStr(
            Expect(Parsed(TRUE, <<>>, cs), <<"{">>)),
            <<":", " ">>)), <<",", " ">>)), <<":", " ">>)), <<"}">>),
         LAMBDA p :
            IF ~p.ok THEN ParseFail
            ELSE LET Get(key) == IF p.val[1] = Chars(key) THEN p.val[2]
                                 ELSE IF p.val[3] = Chars(key) THEN p.val[4]
                                 ELSE None
                 IN Parsed(TRUE, [brand |-> Get("brand"), product |-> Get("product")],
                           p.rest))

\* The items of a JSON list after its opening bracket; kind selects the
\* item parser ("name" or "product").
RECURSIVE ParseItems(_, _, _)
ParseItems(cs, kind, acc) ==
    Bind(IF kind = "name" THEN ParseStr(cs) ELSE ParseProduct(cs), LAMBDA item :
        IF ~item.ok THEN ParseFail
        ELSE IF StartsWith(item.rest, <<"]">>)
             THEN Parsed(TRUE, Append(acc, item.val), Tail(item.rest))
        ELSE IF StartsWith(item.rest, <<",", " ">>)
             THEN Bind(Append(acc, item.val), LAMBDA acc1 :
                     ParseItems(Drop(item.rest, 2), kind, acc1))
        ELSE ParseFail)

\* json.loads of a text written by json.dumps above; any other text is a
\* parse error (ok = FALSE).
json_loads(text, kind) ==
    IF ~StartsWith(text, <<"[">>) THEN ParseFail
    ELSE IF Tail(text) = <<"]">> THEN Parsed(TRUE, <<>>, <<>>)
    ELSE Bind(ParseItems(Tail(text), kind, <<>>), LAMBDA r :
            IF r.ok /\ r.rest = <<>> THEN r ELSE ParseFail)

\* ----------------------------------------------------------------- store

Range(f) == {f[i] : i \in DOMAIN f}

EmptyStore ==
    [ brands   |-> <<>>,     \* rows [id, name, normalized_name]
      sponsors |-> <<>>,     \* rows [id, name, normalized_name]
      products |-> <<>>,     \* rows [id, name, normalized_name, brand_id]
      \* rows [video_id, transcript_hash, brands_json, products_json, sponsors_json]
      video_extraction_cache |-> <<>>,
      channels |-> {},            \* channel ids
      \* rows [video_id, channel_id, overall_sentiment, brands, sponsors, products]
      videos |-> <<>>,
      video_segments |-> <<>>,    \* rows [id, video_id, start_time, end_time, text]
      \* rows [id, brand_id, video_id, channel_id, mention_count, sentiment_score]
      brand_mentions |-> <<>>,
      \* rows [id, sponsor_id, video_id, channel_id, mention_count, sentiment_score]
      sponsor_mentions |-> <<>>,
      \* rows [id, product_id, brand_id, video_id, channel_id, mention_count, sentiment_score]
      product_mentions |-> <<>>,
      cached_dashboards |-> {},   \* rows [kind, id, version, stamp], one per key
      ingestion_logs |-> <<>>,    \* rows [id, video_id, channel_id, status, step]
      \* sqlite_sequence of the tables that lose rows
      seq |-> [video_segments |-> 0, brand_mentions |-> 0,
               sponsor_mentions |-> 0, product_mentions |-> 0]
    ]

\* AUTOINCREMENT: one more than the largest id the table ever held.  No
\* operation of the model deletes a canonical row, so that is the row count.
NextId(table) == Len(table) + 1

Outcome(st, id, commit, exc) ==
    [st |-> st, id |-> id, commit |-> commit, exc |-> exc]

\* The possible results of upsert_brand(conn, name) on a connection whose
\* view is st: the view afterwards, the returned id (0 for None), whether
\* conn.commit() ran, and the exception raised ("none" if it returned).
\* fetchone() of a SELECT without ORDER BY may return any matching row.
\* "SELECT id FROM brands WHERE normalized_name = ?"
brand_select(st, name) ==
    {r.id : r \in {q \in Range(st.brands) : q.normalized_name = normalize_name(name)}}

\* "INSERT INTO brands (name, normalized_name, ...)", conn.commit(), lastrowid.
\* name is UNIQUE: the INSERT raises when a row already has that name.
brand_insert(st, name) ==
    IF \E r \in Range(st.brands) : r.name = name
    THEN {Outcome(st, 0, FALSE, "IntegrityError")}
    ELSE LET id == NextId(st.brands)
             row == [id |-> id, name |-> name, normalized_name |-> normalize_name(name)]
         IN {Outcome([st EXCEPT !.brands = Append(@, row)], id, TRUE, "none")}

upsert_brand(st, name) ==
    IF Falsy(name) THEN {Outcome(st, 0, FALSE, "none")}
    ELSE IF brand_select(st, name) # {}
         THEN {Outcome(st, id, FALSE, "none") : id \in brand_select(st, name)}
         ELSE brand_insert(st, name)

\* "SELECT id FROM sponsors WHERE normalized_name = ?"
sponsor_select(st, name) ==
    {r.id : r \in {q \in Range(st.sponsors) : q.normalized_name = normalize_name(name)}}

\* "INSERT INTO sponsors (name, normalized_name, ...)", conn.commit(), lastrowid.
sponsor_insert(st, name) ==
    IF \E r \in Range(st.sponsors) : r.name = name
    THEN {Outcome(st, 0, FALSE, "IntegrityError")}
    ELSE LET id == NextId(st.sponsors)
             row == [id |-> id, name |-> name, normalized_name |-> normalize_name(name)]
         IN {Outcome([st EXCEPT !.sponsors = Append(@, row)], id, TRUE, "none")}

upsert_sponsor(st, name) ==
    IF Falsy(name) THEN {Outcome(st, 0, FALSE, "none")}
    ELSE IF sponsor_select(st, name) # {}
         THEN {Outcome(st, id, FALSE, "none") : id \in sponsor_select(st, name)}
         ELSE sponsor_insert(st, name)

\* "SELECT id FROM brands WHERE lower(name)=?" with brand_name.strip().lower():
\* the ids brand_id can take (0 when no row matches or no hint is given).
BrandIdsForHint(st, brand_name) ==
    IF Falsy(brand_name) THEN {0}
    ELSE LET found == {r \in Range(st.brands) :
                          sql_lower(r.name) = lower(strip(brand_name))}
         IN IF found = {} THEN {0} ELSE {r.id : r \in found}

\* "UPDATE products SET brand_id=? WHERE id=? AND brand_id IS NULL"
BackfillBrand(products, product_id, brand_id) ==
    [i \in DOMAIN products |->
        IF products[i].id = product_id /\ products[i].brand_id = 0
        THEN [products[i] EXCEPT !.brand_id = brand_id]
        ELSE products[i]]

\* "SELECT id FROM products WHERE lower(name)=?" with normalize_name(name)
product_select(st, name) ==
    {r.id : r \in {q \in Range(st.products) : sql_lower(q.name) = normalize_name(name)}}

\* The branch of upsert_product for an existing row: backfill, commit.
product_update(st, product_id, brand_id) ==
    Outcome(IF brand_id # 0
            THEN [st EXCEPT !.products = BackfillBrand(@, product_id, brand_id)]
            ELSE st,
            product_id, TRUE, "none")

\* "INSERT INTO products (name, brand_id)", conn.commit(), lastrowid.
\* normalized_name is not among the columns and stays NULL.
product_insert(st, name, brand_id) ==
    IF \E r \in Range(st.products) : r.name = name
    THEN {Outcome(st, 0, FALSE, "IntegrityError")}
    ELSE LET id == NextId(st.products)
             row == [id |-> id, name |-> name, normalized_name |-> None,
                     brand_id |-> brand_id]
         IN {Outcome([st EXCEPT !.products = Append(@, row)], id, TRUE, "none")}

upsert_product(st, name, brand_name) ==
    IF Falsy(name) THEN {Outcome(st, 0, FALSE, "none")}
    ELSE UNION { IF product_select(st, name) # {}
                 THEN {product_update(st, id, b) : id \in product_select(st, name)}
                 ELSE product_insert(st, name, b)
               : b \in BrandIdsForHint(st, brand_name) }

\* -------------------------------------------------------- writers' state

Writers == {1, 2}

IdleWriter ==
    [pc |-> "idle", kind |-> "none", name |-> None, hint |-> None,
     brand_id |-> 0, missed |-> FALSE, id |-> 0, exc |-> "none"]

\* The parts of the state a specification does not use stay at these values.
NoHash == hin = <<>> /\ hout = <<>>

NoPipeline == pc = "off" /\ loc = <<>> /\ hist = <<>>

NoChannel == chan = <<>>

NoAcquire == acq = <<>>

\* No request of the web application is modelled.
NoWeb == web = <<>>

\* No thread uses the proxy pool.
NoProxy == px = <<>>

\* No concurrent runs are modelled.
NoTwin == twin = <<>>

\* ------------------------------------------------- upsert calls, one writer

\* Bound on the number of top-level calls of a run of the model.
MaxCalls == 4

\* "Ab", "ab", " AB ", "Ab ", "C", "Éa", "" : names that agree or differ
\* after trim-and-lowercase, one with a non-ASCII capital, and the empty name.
Names ==
    { <<"A", "b">>, <<"a", "b">>, <<" ", "A", "B", " ">>, <<"A", "b", " ">>,
      <<"C">>, <<"É", "a">>, <<>> }

\* Brand hints a caller can pass: a name or None.
Hints == {<<"A", "b">>, <<" ", "A", "B", " ">>, <<"C">>, None}

NoCall == [op |-> "none", name |-> None, hint |-> None, id |-> 0, exc |-> "none"]

\* One call on a connection with no open transaction: the statement's
\* effect is durable when the function committed; an exception leaves the
\* connection's view as it was.
CallEffect(o, kind, op, name, hint) ==
    /\ conn' = o.st
    /\ db' = IF o.commit THEN o.st ELSE db
    /\ ncalls' = ncalls + 1
    /\ last' = [op |-> op, name |-> name, hint |-> hint, id |-> o.id, exc |-> o.exc]
    /\ returned' = IF o.exc = "none" /\ o.id # 0
                   THEN returned \cup {<<kind, normalize_name(name), o.id>>}
                   ELSE returned
    /\ UNCHANGED <<w, hin, hout, pc, loc, hist, chan, acq, web, px, twin>>

UpsertBrandCall ==
    /\ ncalls < MaxCalls
    /\ \E name \in Names : \E o \in upsert_brand(conn, name) :
          CallEffect(o, "brand", "upsert_brand", name, None)

UpsertSponsorCall ==
    /\ ncalls < MaxCalls
    /\ \E name \in Names : \E o \in upsert_sponsor(conn, name) :
          CallEffect(o, "sponsor", "upsert_sponsor", name, None)

UpsertProductCall ==
    /\ ncalls < MaxCalls
    /\ \E name \in Names, hint \in Hints : \E o \in upsert_product(conn, name, hint) :
          CallEffect(o, "product", "upsert_product", name, hint)

InitUpsert ==
    /\ db = EmptyStore
    /\ conn = EmptyStore
    /\ ncalls = 0
    /\ last = NoCall
    /\ returned = {}
    /\ w = [i \in Writers |-> IdleWriter]
    /\ NoHash /\ NoPipeline /\ NoChannel /\ NoAcquire /\ NoWeb /\ NoProxy /\ NoTwin

NextUpsert == UpsertBrandCall \/ UpsertSponsorCall \/ UpsertProductCall

SpecUpsert == InitUpsert /\ [][NextUpsert]_vars

\* ----------------------------------------------------------- claims C4-C7

Table(st, kind) ==
    CASE kind = "brand" -> st.brands
      [] kind = "sponsor" -> st.sponsors
      [] kind = "product" -> st.products

Kinds == {"brand", "sponsor", "product"}

\* C4: upsert is idempotent under normalisation: for each entity kind, all
\* calls whose names agree after trim-and-lowercase returned one and the
\* same id, and the table holds exactly one row for that normalised name.
C4_UpsertIdempotent ==
    \A kind \in Kinds :
       /\ \A x \in returned, y \in returned :
             (x[1] = kind /\ y[1] = kind /\ x[2] = y[2]) => x[3] = y[3]
       /\ \A x \in returned :
             x[1] = kind =>
               Cardinality({r \in Range(Table(db, kind)) :
                               normalize_name(r.name) = x[2]}) = 1

\* C5: every canonical row carries normalized_name = trim(name).lower(), and
\* no two rows of one kind share a normalised name.
C5_NormalizedUnique ==
    \A kind \in Kinds :
       /\ \A r \in Range(Table(db, kind)) : r.normalized_name = normalize_name(r.name)
       /\ \A r \in Range(Table(db, kind)), q \in Range(Table(db, kind)) :
             normalize_name(r.name) = normalize_name(q.name) => r.id = q.id

ProductById(st, id) == CHOOSE r \in Range(st.products) : r.id = id

\* C7: a product's brand link is write-once, and an upsert_product call for
\* an existing product without a brand, with a hint naming an existing
\* brand, sets brand_id to that brand's id.
C7_BrandLinkWriteOnce ==
    [][ /\ \A r \in Range(conn.products) :
              r.brand_id # 0 => ProductById(conn', r.id).brand_id = r.brand_id
        /\ \A r \in Range(conn.products), b \in Range(conn.brands) :
              ( /\ last'.op = "upsert_product"
                /\ ~Falsy(last'.name) /\ ~Falsy(last'.hint)
                /\ normalize_name(r.name) = normalize_name(last'.name)
                /\ r.brand_id = 0
                /\ normalize_name(b.name) = normalize_name(last'.hint) )
              => ProductById(conn', r.id).brand_id = b.id
      ]_vars

\* The write-once half of C7 alone.
C7_NeverOverwritten ==
    [][ \A r \in Range(conn.products) :
           r.brand_id # 0 => ProductById(conn', r.id).brand_id = r.brand_id ]_vars

\* ------------------------------------------------ two concurrent writers

\* Names two writers upsert at the same time: "Ab" and "ab".
RaceNames == {<<"A", "b">>, <<"a", "b">>}

RaceHints == {<<"A", "b">>, None}

RaceFrame ==
    UNCHANGED <<conn, ncalls, last, returned, hin, hout, pc, loc, hist, chan, acq, web, px, twin>>

\* A writer enters upsert_brand, upsert_sponsor or upsert_product on its own
\* connection (get_db_connection), outside any transaction.
RaceBegin(i) ==
    /\ w[i].pc = "idle"
    /\ \E kind \in Kinds, name \in RaceNames, hint \in RaceHints :
          /\ kind # "product" => hint = None
          /\ w' = [w EXCEPT ![i] = [IdleWriter EXCEPT
                       !.pc = IF kind = "product" THEN "brand_select" ELSE "select",
                       !.kind = kind, !.name = name, !.hint = hint]]
    /\ UNCHANGED db
    /\ RaceFrame

\* upsert_product: the SELECT that resolves the brand hint.
RaceBrandSelect(i) ==
    /\ w[i].pc = "brand_select"
    /\ \E b \in BrandIdsForHint(db, w[i].hint) :
          w' = [w EXCEPT ![i].brand_id = b, ![i].pc = "select"]
    /\ UNCHANGED db
    /\ RaceFrame

SelectOf(kind, st, name) ==
    CASE kind = "brand" -> brand_select(st, name)
      [] kind = "sponsor" -> sponsor_select(st, name)
      [] kind = "product" -> product_select(st, name)

\* The lookup by normalised name: it reads what is committed at that moment.
RaceSelect(i) ==
    /\ w[i].pc = "select"
    /\ LET found == SelectOf(w[i].kind, db, w[i].name)
       IN IF found = {}
          THEN w' = [w EXCEPT ![i].pc = "insert", ![i].missed = TRUE]
          ELSE \E id \in found :
                 w' = [w EXCEPT ![i].id = id,
                                ![i].pc = IF w[i].kind = "product" THEN "update"
                                                                   ELSE "done"]
    /\ UNCHANGED db
    /\ RaceFrame

\* upsert_product on an existing row: UPDATE ... WHERE brand_id IS NULL, commit.
RaceUpdate(i) ==
    /\ w[i].pc = "update"
    /\ db' = product_update(db, w[i].id, w[i].brand_id).st
    /\ w' = [w EXCEPT ![i].pc = "done"]
    /\ RaceFrame

InsertOf(kind, st, name, brand_id) ==
    CASE kind = "brand" -> brand_insert(st, name)
      [] kind = "sponsor" -> sponsor_insert(st, name)
      [] kind = "product" -> product_insert(st, name, brand_id)

\* The INSERT and the commit that follows it.  SQLite admits one writing
\* transaction at a time, so the pair is atomic for the other writer; the
\* UNIQUE constraint is checked against what is committed by then.
RaceInsert(i) ==
    /\ w[i].pc = "insert"
    /\ \E o \in InsertOf(w[i].kind, db, w[i].name, w[i].brand_id) :
          /\ db' = IF o.commit THEN o.st ELSE db
          /\ w' = [w EXCEPT ![i].id = o.id, ![i].exc = o.exc,
                            ![i].pc = IF o.exc = "none" THEN "done" ELSE "raised"]
    /\ RaceFrame

InitRace ==
    /\ db = EmptyStore
    /\ conn = EmptyStore
    /\ ncalls = 0
    /\ last = NoCall
    /\ returned = {}
    /\ w = [i \in Writers |-> IdleWriter]
    /\ NoHash /\ NoPipeline /\ NoChannel /\ NoAcquire /\ NoWeb /\ NoProxy /\ NoTwin

NextRace ==
    \E i \in Writers :
       \/ RaceBegin(i)
       \/ RaceBrandSelect(i)
       \/ RaceSelect(i)
       \/ RaceUpdate(i)
       \/ RaceInsert(i)

SpecRace == InitRace /\ [][NextRace]_vars

\* Both writers upserted the same new entity of one kind: both looked it up,
\* both found it absent, both went on to insert, and both have finished.
RaceMissedBoth ==
    /\ \A i \in Writers : w[i].pc \in {"done", "raised"} /\ w[i].missed
    /\ w[1].kind = w[2].kind
    /\ normalize_name(w[1].name) = normalize_name(w[2].name)

\* C6: when two writers race on the same new name, neither upsert raises,
\* both return the id of the one row that exists afterwards.
C6_RaceReselects ==
    RaceMissedBoth =>
       /\ \A i \in Writers : w[i].exc = "none"
       /\ w[1].id = w[2].id
       /\ Cardinality({r \in Range(Table(db, w[1].kind)) :
                          normalize_name(r.name) = normalize_name(w[1].name)}) = 1

\* ------------------------------------------------------- transcript hash

\* Bound on the number of segments of a transcript.
MaxSegs == 2

Seg(start, end, text) == [start |-> start, end |-> end, text |-> text]

\* Segments with whole-second float times.  Texts: "a", " a", "b", "a:b",
\* "" and "a\n1.0:2.0:b" (a caption holding a line break and colons).
HashSegs ==
    { Seg(0, 1, <<"a">>), Seg(0, 1, <<" ", "a">>), Seg(1, 2, <<"b">>),
      Seg(0, 2, <<"a">>), Seg(0, 1, <<"a", ":", "b">>), Seg(1, 1, <<>>),
      Seg(0, 1, <<"a", "\n", "1", ".", "0", ":", "2", ".", "0", ":", "b">>) }

SeqsUpTo(S, n) == UNION {[1..k -> S] : k \in 0..n}

Digit(d) ==
    CASE d = 0 -> "0" [] d = 1 -> "1" [] d = 2 -> "2" [] d = 3 -> "3"
      [] d = 4 -> "4" [] d = 5 -> "5" [] d = 6 -> "6" [] d = 7 -> "7"
      [] d = 8 -> "8" [] d = 9 -> "9"

RECURSIVE Decimal(_)
Decimal(n) == IF n < 10 THEN <<Digit(n)>> ELSE Decimal(n \div 10) \o <<Digit(n % 10)>>

\* f"{x}" of a Python float holding a whole number of seconds: "0.0", "12.0"
FormatFloat(n) == Decimal(n) \o <<".", "0">>

\* f"{start}:{end}:{text}" with text = (seg.get("text") or "").strip()
HashLine(seg) ==
    FormatFloat(seg.start) \o <<":">> \o FormatFloat(seg.end) \o <<":">>
      \o strip(IF Falsy(seg.text) THEN <<>> ELSE seg.text)

\* "\n".join(lines)
RECURSIVE JoinLines(_)
JoinLines(lines) ==
    IF lines = <<>> THEN <<>>
    ELSE IF Len(lines) = 1 THEN lines[1]
    ELSE lines[1] \o <<"\n">> \o JoinLines(Tail(lines))

HashPayload(segments) == JoinLines([i \in DOMAIN segments |-> HashLine(segments[i])])

\* hashlib.sha256(payload).hexdigest().  SHA-256 is taken as collision free:
\* the digest is a value that is equal exactly when the payloads are.
compute_transcript_hash(segments) == [sha256 |-> HashPayload(segments)]

HashFrame ==
    UNCHANGED <<db, conn, ncalls, last, returned, w, pc, loc, hist, chan, acq, web, px, twin>>

ComputeHashes ==
    /\ hout = <<>>
    /\ hout' = <<compute_transcript_hash(hin[1]), compute_transcript_hash(hin[2])>>
    /\ UNCHANGED hin
    /\ HashFrame

InitHash ==
    /\ db = EmptyStore
    /\ conn = EmptyStore
    /\ ncalls = 0
    /\ last = NoCall
    /\ returned = {}
    /\ w = [i \in Writers |-> IdleWriter]
    /\ hin \in SeqsUpTo(HashSegs, MaxSegs) \X SeqsUpTo(HashSegs, MaxSegs)
    /\ hout = <<>>
    /\ NoPipeline /\ NoChannel /\ NoAcquire /\ NoWeb /\ NoProxy /\ NoTwin

NextHash == ComputeHashes

SpecHash == InitHash /\ [][NextHash]_vars

\* Two transcripts agree on every segment's start, end and trimmed text.
SegsAgree(S, T) ==
    /\ Len(S) = Len(T)
    /\ \A i \in DOMAIN S :
          /\ S[i].start = T[i].start
          /\ S[i].end = T[i].end
          /\ strip(S[i].text) = strip(T[i].text)

\* C10: the content hash separates transcripts: transcripts that agree on
\* start, end and trimmed text hash alike, and the hashed payloads differ
\* whenever they do not agree.
C10_HashSeparates ==
    hout # <<>> =>
       /\ SegsAgree(hin[1], hin[2]) => hout[1] = hout[2]
       /\ ~SegsAgree(hin[1], hin[2]) => HashPayload(hin[1]) # HashPayload(hin[2])

\* The stability half of C10 alone.
C10_AgreeingHashAlike ==
    (hout # <<>> /\ SegsAgree(hin[1], hin[2])) => hout[1] = hout[2]

\* ------------------------------------------------------ entity extraction

Videos == {"V1", "V2"}

Product(brand, product) == [brand |-> brand, product |-> product]

Entities(brands, products, sponsors) ==
    [brands |-> brands, products |-> products, sponsors |-> sponsors]

NoEntities == Entities(<<>>, <<>>, <<>>)

\* What the LLM may answer for a non-blank text (brands "Ab", "ab", "Ab ",
\* "C"; products "P", "P ", "Q"; sponsors "S", "s"): nothing; one brand with
\* its product; names repeated with other case or spacing and one product
\* with and without its brand; a product and no brand; two brands.
LLMOutputs ==
    { NoEntities,
      Entities(<<<<"A", "b">>>>, <<Product(<<"A", "b">>, <<"P">>)>>, <<>>),
      Entities(<< <<"a", "b">>, <<"A", "b">>, <<"A", "b", " ">> >>,
               << Product(None, <<"P">>), Product(<<"A", "b">>, <<"P">>),
                  Product(<<"A", "b">>, <<"P", " ">>) >>,
               << <<"S">>, <<"s">> >>),
      Entities(<<>>, <<Product(None, <<"Q">>)>>, <<<<"S">>>>),
      Entities(<< <<"A", "b">>, <<"C">> >>, <<Product(<<"A", "b">>, <<"Q">>)>>, <<>>),
      Entities(<<<<"É", "a">>>>, <<Product(<<"É", "a">>, <<"P">>)>>, <<>>) }

\* Transcripts handed to extraction: two captions in order; the same video
\* re-captioned, out of order; one caption of blank text.
Transcripts ==
    { << Seg(0, 2, <<"a">>), Seg(2, 5, <<"A", "b", " ", "P">>) >>,
      << Seg(2, 5, <<"A", "b", " ", "Q">>), Seg(0, 2, <<"a">>) >>,
      << Seg(0, 1, <<" ">>) >> }

\* sorted(segments, key=lambda s: s.get("start", 0.0)): stable.
RECURSIVE InsertByStart(_, _)
InsertByStart(sorted0, seg) ==
    Bind(sorted0, LAMBDA sorted :
        IF sorted = <<>> THEN <<seg>>
        ELSE IF sorted[Len(sorted)].start <= seg.start THEN Append(sorted, seg)
        ELSE Append(InsertByStart(SubSeq(sorted, 1, Len(sorted) - 1), seg),
                    sorted[Len(sorted)]))

RECURSIVE SortByStart(_)
SortByStart(segments) ==
    IF segments = <<>> THEN <<>>
    ELSE InsertByStart(SortByStart(SubSeq(segments, 1, Len(segments) - 1)),
                       segments[Len(segments)])

\* "\n".join((seg.get("text") or "").strip() for seg in segments)
FullText(segments) ==
    JoinLines([i \in DOMAIN segments |->
                  strip(IF Falsy(segments[i].text) THEN <<>> ELSE segments[i].text)])

\* The stripped, non-empty names of a list, as a set.
StrippedSet(names) ==
    {strip(names[i]) : i \in {j \in DOMAIN names : ~Falsy(names[j]) /\ strip(names[j]) # <<>>}}

\* The product loop of _normalise_and_dedupe: first occurrence of each
\* (brand.strip(), product.strip()) key, in order.
RECURSIVE DedupeProducts(_, _, _)
DedupeProducts(products, seen, out) ==
    IF products = <<>> THEN out
    ELSE LET p == Head(products)
             key == Product(IF p.brand = None THEN None ELSE strip(p.brand),
                            IF Falsy(p.product) THEN <<>> ELSE strip(p.product))
         IN IF Falsy(p.product) \/ key \in seen
            THEN DedupeProducts(Tail(products), seen, out)
            ELSE DedupeProducts(Tail(products), seen \cup {key}, Append(out, key))

normalise_and_dedupe(raw) ==
    Entities(SortedStrs(StrippedSet(raw.brands)),
             DedupeProducts(raw.products, {}, <<>>),
             SortedStrs(StrippedSet(raw.sponsors)))

\* _call_llm_for_entities(text): blank text is answered without a request;
\* otherwise one chat-completion request, which returns some answer or raises.
call_llm_for_entities(text) ==
    IF strip(text) = <<>>
    THEN {[raw |-> NoEntities, requests |-> 0, exc |-> "none"]}
    ELSE {[raw |-> r, requests |-> 1, exc |-> "none"] : r \in LLMOutputs}
         \cup {[raw |-> NoEntities, requests |-> 1, exc |-> "LLMError"]}

\* What a cache lookup answers: hit or not, the entities, and whether a
\* column loaded as something that is no list (bad).
CacheMiss == [hit |-> FALSE, val |-> NoEntities, bad |-> FALSE]

\* A JSON text that json.loads accepts and that is no list: it loads as None.
JsonNull == Chars("null")

\* A lookup that never finds a row: extraction without a working cache.
get_cached_extraction_miss(st, video_id, transcript_hash) == {CacheMiss}

\* get_cached_extraction(conn, video_id, transcript_hash): the possible
\* answers (fetchone may return any row of that video id).
get_cached_extraction(st, video_id, transcript_hash) ==
    LET rows == {r \in Range(st.video_extraction_cache) : r.video_id = video_id}
        Answer(row) ==
          IF row.transcript_hash # transcript_hash THEN CacheMiss
          ELSE LET b == IF row.brands_json = <<>> THEN Parsed(TRUE, <<>>, <<>>)
                        ELSE json_loads(row.brands_json, "name")
                   p == IF row.products_json = <<>> THEN Parsed(TRUE, <<>>, <<>>)
                        ELSE json_loads(row.products_json, "product")
                   s == IF row.sponsors_json = <<>> THEN Parsed(TRUE, <<>>, <<>>)
                        ELSE json_loads(row.sponsors_json, "name")
                   Loads(text, r) == text = JsonNull \/ r.ok
                   columns == {row.brands_json, row.products_json, row.sponsors_json}
               IN IF ~(/\ Loads(row.brands_json, b) /\ Loads(row.products_json, p)
                       /\ Loads(row.sponsors_json, s))
                  THEN CacheMiss
                  ELSE IF JsonNull \in columns
                  THEN [hit |-> TRUE, val |-> NoEntities, bad |-> TRUE]
                  ELSE [hit |-> TRUE, val |-> Entities(b.val, p.val, s.val), bad |-> FALSE]
    IN IF rows = {} THEN {CacheMiss} ELSE {Answer(row) : row \in rows}

\* INSERT OR IGNORE instead of the upsert: a row already stored for the video
\* is left as it is.
save_extraction_cache_ignore(st, video_id, transcript_hash, e) ==
    LET row == [video_id |-> video_id, transcript_hash |-> transcript_hash,
                brands_json |-> json_dumps_names(e.brands),
                products_json |-> json_dumps_products(e.products),
                sponsors_json |-> json_dumps_names(e.sponsors)]
        t == st.video_extraction_cache
    IN [st EXCEPT !.video_extraction_cache =
          IF \E i \in DOMAIN t : t[i].video_id = video_id THEN t ELSE Append(t, row)]

\* INSERT INTO video_extraction_cache ... ON CONFLICT(video_id) DO UPDATE, commit.
save_extraction_cache(st, video_id, transcript_hash, e) ==
    LET row == [video_id |-> video_id, transcript_hash |-> transcript_hash,
                brands_json |-> json_dumps_names(e.brands),
                products_json |-> json_dumps_products(e.products),
                sponsors_json |-> json_dumps_names(e.sponsors)]
        t == st.video_extraction_cache
    IN [st EXCEPT !.video_extraction_cache =
          IF \E i \in DOMAIN t : t[i].video_id = video_id
          THEN [i \in DOMAIN t |-> IF t[i].video_id = video_id THEN row ELSE t[i]]
          ELSE Append(t, row)]

Extracted(st, e, exc, requests, hit) ==
    [st |-> st, val |-> e, exc |-> exc, requests |-> requests, hit |-> hit]

\* extract_entities_for_video(video_id, segments) on a connection of its own:
\* the store afterwards, the entities returned, the exception raised instead
\* ("none" if it returned), and the number of LLM requests issued.  On a
\* hit the lengths of the three values are printed: len(None) raises.
extract_entities_for_video(st, video_id, segments) ==
    LET sorted == SortByStart(segments)
        transcript_hash == compute_transcript_hash(sorted)
        full_text == FullText(sorted)
        OnMiss ==
          { IF a.exc # "none" THEN Extracted(st, NoEntities, a.exc, a.requests, FALSE)
            ELSE LET e == normalise_and_dedupe(a.raw)
                 IN Extracted(save_extraction_cache(st, video_id, transcript_hash, e),
                              e, "none", a.requests, FALSE)
            : a \in call_llm_for_entities(full_text) }
    IN UNION { IF c.hit /\ c.bad THEN {Extracted(st, NoEntities, "TypeError", 0, TRUE)}
               ELSE IF c.hit THEN {Extracted(st, c.val, "none", 0, TRUE)} ELSE OnMiss
               : c \in get_cached_extraction(st, video_id, transcript_hash) }

\* Bound on the number of extraction calls of a run of the model.
MaxExtracts == 3

NeverCalled == [called |-> FALSE, segments |-> <<>>, exc |-> "none", val |-> NoEntities]

ExtractFrame == UNCHANGED <<ncalls, returned, w, hin, hout, pc, loc, chan, acq, web, px, twin>>

\* One call of extract_entities_for_video.  last keeps the call, what it
\* returned, the hash stored for the video when it began, and the video's
\* previous call; hist keeps each video's latest call.
ExtractCall ==
    /\ Len(hist.calls) < MaxExtracts
    /\ \E v \in Videos, segments \in Transcripts :
       \E o \in extract_entities_for_video(db, v, segments) :
          /\ db' = o.st
          /\ conn' = o.st
          /\ last' = [video |-> v, segments |-> segments, exc |-> o.exc, val |-> o.val,
                      requests |-> o.requests,
                      stored |-> {r.transcript_hash :
                                    r \in {q \in Range(db.video_extraction_cache) :
                                             q.video_id = v}},
                      prev |-> hist.latest[v]]
          /\ hist' = [calls |-> Append(hist.calls, v),
                      latest |-> [hist.latest EXCEPT ![v] =
                                    [called |-> TRUE, segments |-> segments,
                                     exc |-> o.exc, val |-> o.val]]]
    /\ ExtractFrame

InitExtract ==
    /\ db = EmptyStore
    /\ conn = EmptyStore
    /\ ncalls = 0
    /\ returned = {}
    /\ w = [i \in Writers |-> IdleWriter]
    /\ NoHash /\ NoChannel /\ NoAcquire /\ NoWeb /\ NoProxy /\ NoTwin
    /\ pc = "off" /\ loc = <<>>
    /\ last = [video |-> "none", segments |-> <<>>, exc |-> "none", val |-> NoEntities,
               requests |-> 0, stored |-> {}, prev |-> NeverCalled]
    /\ hist = [calls |-> <<>>, latest |-> [v \in Videos |-> NeverCalled]]

NextExtract == ExtractCall

SpecExtract == InitExtract /\ [][NextExtract]_vars

CacheRowsOf(st, v) ==
    {i \in DOMAIN st.video_extraction_cache : st.video_extraction_cache[i].video_id = v}

\* The last call returned, and it was the second of two calls for its video
\* with the same segments, the first of which returned too.
SecondOfTwo ==
    /\ last.video # "none" /\ last.exc = "none"
    /\ last.prev.called /\ last.prev.exc = "none"
    /\ last.prev.segments = last.segments

\* C8: extraction is idempotent through the cache: the second of two calls
\* with the same video id and segments issues no LLM request and returns
\* what the first returned.
C8_ExtractIdempotent ==
    SecondOfTwo => last.requests = 0 /\ last.val = last.prev.val

C8_Witness == SecondOfTwo /\ last.val.brands # <<>> /\ last.val.products # <<>>

\* The last call returned and found a cache row for its video whose hash was
\* not the hash of the transcript passed in.
ReturnedOnStale ==
    /\ last.video # "none" /\ last.exc = "none"
    /\ last.stored # {}
    /\ compute_transcript_hash(SortByStart(last.segments)) \notin last.stored

OneFreshCacheRow ==
    /\ Cardinality(CacheRowsOf(db, last.video)) = 1
    /\ \A i \in CacheRowsOf(db, last.video) :
          LET row == db.video_extraction_cache[i]
          IN /\ row.transcript_hash = compute_transcript_hash(SortByStart(last.segments))
             /\ json_loads(row.brands_json, "name").val = last.val.brands
             /\ json_loads(row.products_json, "product").val = last.val.products
             /\ json_loads(row.sponsors_json, "name").val = last.val.sponsors

\* C9 as stated: on a hash mismatch the call is a miss, the LLM is called,
\* and one cache row with the new hash and the new result is left.
C9_StaleCallsLLM ==
    ReturnedOnStale => last.requests >= 1 /\ OneFreshCacheRow

\* C9 amended: on a hash mismatch the call is a miss; the LLM is requested
\* exactly when the transcript text is not blank (a blank text gives the
\* empty result without a request); one cache row with the new hash and the
\* new result is left.
C9_StaleRegenerates ==
    ReturnedOnStale =>
       /\ last.requests = IF strip(FullText(SortByStart(last.segments))) = <<>> THEN 0 ELSE 1
       /\ OneFreshCacheRow

C9_Witness == ReturnedOnStale /\ last.requests = 1 /\ last.val.brands # <<>>

\* ------------------------------------------------------ save_video_to_db

\* Bound on the number of save_video_to_db runs of a run of the model.
MaxRuns == 2

ChannelOf(v) == IF v = "V1" THEN "CH1" ELSE "CH2"

\* The sentiments analyze_transcript may report.
Positive == <<"P", "o", "s", "i", "t", "i", "v", "e">>

Neutral == <<"N", "e", "u", "t", "r", "a", "l">>

Sentiments == {Positive, Neutral}

\* sub in s
Contains(s, sub) ==
    \E i \in 0..(Len(s) - Len(sub)) : SubSeq(s, i + 1, i + Len(sub)) = sub

sentiment_to_score(sentiment) ==
    LET s == lower(IF Falsy(sentiment) THEN <<>> ELSE sentiment)
    IN IF Contains(s, <<"p", "o", "s", "i", "t", "i", "v", "e">>) THEN 85
       ELSE IF Contains(s, <<"n", "e", "g", "a", "t", "i", "v", "e">>) THEN 15
       ELSE 50

\* The transcripts save_video_to_db is handed.
PipeTranscripts ==
    { << Seg(0, 2, <<"a">>), Seg(2, 5, <<"A", "b", " ", "P">>) >>,
      << Seg(0, 2, <<"A", "b", " ", "Q">>) >> }

\* A local variable that no statement has assigned yet.
Unbound == -1

\* INSERT OR REPLACE INTO videos: the row of that video id, if any, goes.
insert_or_replace_video(st, v, sentiment, e) ==
    [st EXCEPT !.videos =
        Append(SelectSeq(@, LAMBDA r : r.video_id # v),
               [video_id |-> v, channel_id |-> ChannelOf(v),
                overall_sentiment |-> sentiment,
                brands |-> json_dumps_names(e.brands),
                sponsors |-> json_dumps_names(e.sponsors),
                products |-> json_dumps_products(e.products)])]

\* DELETE FROM video_segments WHERE video_id = ?, then one INSERT per segment.
replace_segments(st, v, segments) ==
    LET n == st.seq.video_segments
    IN [st EXCEPT
          !.video_segments =
             SelectSeq(@, LAMBDA r : r.video_id # v) \o
             [i \in DOMAIN segments |->
                [id |-> n + i, video_id |-> v, start_time |-> segments[i].start,
                 end_time |-> segments[i].end, text |-> segments[i].text]],
          !.seq.video_segments = n + Len(segments)]

\* Only the brand mentions of the video are deleted.
delete_mentions_brands_only(st, v) ==
    [st EXCEPT !.brand_mentions = SelectSeq(@, LAMBDA r : r.video_id # v)]

\* DELETE FROM brand_mentions / sponsor_mentions / product_mentions
\* WHERE video_id = ?
delete_mentions(st, v) ==
    [st EXCEPT !.brand_mentions = SelectSeq(@, LAMBDA r : r.video_id # v),
               !.sponsor_mentions = SelectSeq(@, LAMBDA r : r.video_id # v),
               !.product_mentions = SelectSeq(@, LAMBDA r : r.video_id # v)]

\* INSERT INTO brand_mentions (brand_id, video_id, channel_id, 1, score, date)
insert_brand_mention(st, brand_id, v, score) ==
    LET n == st.seq.brand_mentions + 1
    IN [st EXCEPT
          !.brand_mentions =
             Append(@, [id |-> n, brand_id |-> brand_id, video_id |-> v,
                        channel_id |-> ChannelOf(v), mention_count |-> 1,
                        sentiment_score |-> score]),
          !.seq.brand_mentions = n]

\* INSERT INTO sponsor_mentions (sponsor_id, video_id, channel_id, 1, score, date)
insert_sponsor_mention(st, sponsor_id, v, score) ==
    LET n == st.seq.sponsor_mentions + 1
    IN [st EXCEPT
          !.sponsor_mentions =
             Append(@, [id |-> n, sponsor_id |-> sponsor_id, video_id |-> v,
                        channel_id |-> ChannelOf(v), mention_count |-> 1,
                        sentiment_score |-> score]),
          !.seq.sponsor_mentions = n]

\* INSERT INTO product_mentions (product_id, brand_id, video_id, ...), then
\* DELETE FROM cached_dashboards WHERE key = "product:{product_id}:intel_v2"
\* The INSERT INTO product_mentions alone, the cached report left in place.
insert_product_mention_keep_cache(st, product_id, brand_id, v, score) ==
    LET n == st.seq.product_mentions + 1
    IN [st EXCEPT
          !.product_mentions =
             Append(@, [id |-> n, product_id |-> product_id, brand_id |-> brand_id,
                        video_id |-> v, channel_id |-> ChannelOf(v),
                        mention_count |-> 1, sentiment_score |-> score]),
          !.seq.product_mentions = n]

insert_product_mention(st, product_id, brand_id, v, score) ==
    LET n == st.seq.product_mentions + 1
    IN [st EXCEPT
          !.product_mentions =
             Append(@, [id |-> n, product_id |-> product_id, brand_id |-> brand_id,
                        video_id |-> v, channel_id |-> ChannelOf(v),
                        mention_count |-> 1, sentiment_score |-> score]),
          !.seq.product_mentions = n,
          !.cached_dashboards =
             {r \in @ : ~(r.kind = "product" /\ r.id = product_id
                                             /\ r.version = "intel_v2")}]

\* Where the three loops stand when loop `kind` is about to take item i:
\* a finished loop falls through to the next one, a product entry without a
\* product name is skipped, and after the last loop comes conn.commit().
RECURSIVE LoopPc(_, _, _)
LoopPc(e, kind, i) ==
    IF kind = "brand"
    THEN IF i <= Len(e.brands) THEN [pc |-> "brand", i |-> i]
         ELSE LoopPc(e, "sponsor", 1)
    ELSE IF kind = "sponsor"
    THEN IF i <= Len(e.sponsors) THEN [pc |-> "sponsor", i |-> i]
         ELSE LoopPc(e, "product", 1)
    ELSE IF i > Len(e.products) THEN [pc |-> "commit", i |-> 0]
    ELSE IF Falsy(e.products[i].product) THEN LoopPc(e, "product", i + 1)
    ELSE [pc |-> "product", i |-> i]

PipeFrame == UNCHANGED <<ncalls, last, returned, w, hin, hout, chan, acq, web, px, twin>>

NoRun ==
    [video |-> "none", segments |-> <<>>, sentiment |-> None, entities |-> NoEntities,
     i |-> 0, brand_id |-> Unbound, sponsor_id |-> Unbound, product_id |-> Unbound,
     base |-> EmptyStore, exc |-> "none"]

\* No run of save_video_to_db is under way.
Idle == pc \in {"idle", "done", "raised"}

\* save_video_to_db(video_meta, transcript_segments) is entered:
\* get_db_connection() opens a connection on the durable store.
StartSave ==
    /\ Idle
    /\ hist.runs < MaxRuns
    /\ \E v \in Videos, segments \in PipeTranscripts :
          loc' = [NoRun EXCEPT !.video = v, !.segments = segments, !.base = db]
    /\ conn' = db
    /\ pc' = "channel"
    /\ hist' = [hist EXCEPT !.runs = @ + 1]
    /\ UNCHANGED db
    /\ PipeFrame

\* The exception leaves the function through finally: conn.close() drops
\* what the connection has not committed.
Raise(durable, exc) ==
    /\ db' = durable
    /\ conn' = durable
    /\ pc' = "raised"
    /\ loc' = [loc EXCEPT !.exc = exc]
    /\ UNCHANGED hist
    /\ PipeFrame

\* The channel block: with channel details the row is upserted and
\* committed; without them, or when the fetch raises, only a warning.
UpsertChannel ==
    /\ pc = "channel"
    /\ \/ /\ db' = [db EXCEPT !.channels = @ \cup {ChannelOf(loc.video)}]
          /\ conn' = db'
       \/ UNCHANGED <<db, conn>>
    /\ pc' = "analyze"
    /\ UNCHANGED <<loc, hist>>
    /\ PipeFrame

\* analyze_transcript: it returns an analysis whatever the LLM did.
Analyze ==
    /\ pc = "analyze"
    /\ \E sentiment \in Sentiments : loc' = [loc EXCEPT !.sentiment = sentiment]
    /\ pc' = "extract"
    /\ UNCHANGED <<db, conn, hist>>
    /\ PipeFrame

\* extract_entities_for_video, on a connection of its own: the cache row it
\* commits is durable at once; what it raises leaves save_video_to_db.
Extract ==
    /\ pc = "extract"
    /\ \E o \in extract_entities_for_video(db, loc.video, loc.segments) :
          IF o.exc # "none" THEN Raise(db, o.exc)
          ELSE /\ db' = o.st
               /\ conn' = [conn EXCEPT !.video_extraction_cache = o.st.video_extraction_cache]
               /\ loc' = [loc EXCEPT !.entities = o.val]
               /\ pc' = "video"
               /\ UNCHANGED hist
               /\ PipeFrame

InsertVideo ==
    /\ pc = "video"
    /\ conn' = insert_or_replace_video(conn, loc.video, loc.sentiment, loc.entities)
    /\ pc' = "segments"
    /\ UNCHANGED <<db, loc, hist>>
    /\ PipeFrame

ReplaceSegments ==
    /\ pc = "segments"
    /\ conn' = replace_segments(conn, loc.video, loc.segments)
    /\ pc' = "mentions"
    /\ UNCHANGED <<db, loc, hist>>
    /\ PipeFrame

\* The three DELETEs; the loops start.
DeleteMentions ==
    /\ pc = "mentions"
    /\ conn' = delete_mentions(conn, loc.video)
    /\ LET to == LoopPc(loc.entities, "brand", 1)
       IN pc' = to.pc /\ loc' = [loc EXCEPT !.i = to.i]
    /\ UNCHANGED <<db, hist>>
    /\ PipeFrame

\* One upsert_* call made by a loop on the function's connection: a commit
\* inside it makes everything the connection has written durable.  The loop
\* goes on to the mention insert when the id is truthy.
UpsertStep(o, var, kind) ==
    LET durable == IF o.commit THEN o.st ELSE db
    IN IF o.exc # "none" THEN Raise(durable, o.exc)
       ELSE /\ db' = durable
            /\ conn' = o.st
            /\ LET to == IF o.id # 0 THEN [pc |-> kind \o "_mention", i |-> loc.i]
                         ELSE LoopPc(loc.entities, kind, loc.i + 1)
               IN /\ pc' = to.pc
                  /\ loc' = [loc EXCEPT ![var] = o.id, !.i = to.i]
            /\ UNCHANGED hist
            /\ PipeFrame

\* brand_id = upsert_brand(conn, b, ...)
UpsertBrandStep ==
    /\ pc = "brand"
    /\ \E o \in upsert_brand(conn, loc.entities.brands[loc.i]) :
          UpsertStep(o, "brand_id", "brand")

\* One mention INSERT of a loop, then the loop's next item.
MentionStep(st, kind) ==
    /\ conn' = st
    /\ LET to == LoopPc(loc.entities, kind, loc.i + 1)
       IN pc' = to.pc /\ loc' = [loc EXCEPT !.i = to.i]
    /\ UNCHANGED <<db, hist>>
    /\ PipeFrame

InsertBrandMention ==
    /\ pc = "brand_mention"
    /\ MentionStep(insert_brand_mention(conn, loc.brand_id, loc.video,
                                        sentiment_to_score(loc.sentiment)), "brand")

\* sponsor_id = upsert_sponsor(conn, s, ...)
UpsertSponsorStep ==
    /\ pc = "sponsor"
    /\ \E o \in upsert_sponsor(conn, loc.entities.sponsors[loc.i]) :
          UpsertStep(o, "sponsor_id", "sponsor")

InsertSponsorMention ==
    /\ pc = "sponsor_mention"
    /\ MentionStep(insert_sponsor_mention(conn, loc.sponsor_id, loc.video,
                                          sentiment_to_score(loc.sentiment)), "sponsor")

\* main_brand_name = brands[0] if brands else None
main_brand_name(e) == IF e.brands # <<>> THEN e.brands[1] ELSE None

\* product_id = upsert_product(conn, product_name,
\*                             brand_name=p_dict.get("brand") or main_brand_name)
UpsertProductStep ==
    /\ pc = "product"
    /\ LET p_dict == loc.entities.products[loc.i]
           brand_for_product == IF Falsy(p_dict.brand) THEN main_brand_name(loc.entities)
                                ELSE p_dict.brand
       IN \E o \in upsert_product(conn, p_dict.product, brand_for_product) :
             UpsertStep(o, "product_id", "product")

\* The product mention takes brand_id, the variable of the brand loop: it
\* is unbound when that loop had no item.
InsertProductMention ==
    /\ pc = "product_mention"
    /\ IF loc.brand_id = Unbound THEN Raise(db, "UnboundLocalError")
       ELSE MentionStep(insert_product_mention(conn, loc.product_id, loc.brand_id, loc.video,
                                               sentiment_to_score(loc.sentiment)), "product")

\* conn.commit(), then finally: conn.close()
Commit ==
    /\ pc = "commit"
    /\ db' = conn
    /\ pc' = "done"
    /\ hist' = [hist EXCEPT !.completed[loc.video] = @ + 1]
    /\ UNCHANGED <<conn, loc>>
    /\ PipeFrame

\* The statements save_video_to_db runs on its connection.
Statements ==
    {"video", "segments", "mentions", "brand", "brand_mention", "sponsor",
     "sponsor_mention", "product", "product_mention", "commit"}

\* The statement at hand raises sqlite3.OperationalError (locked database,
\* full disk): nothing catches it.
StatementFails ==
    /\ pc \in Statements
    /\ Raise(db, "OperationalError")

Init ==
    /\ db = EmptyStore
    /\ conn = EmptyStore
    /\ ncalls = 0
    /\ last = NoCall
    /\ returned = {}
    /\ w = [i \in Writers |-> IdleWriter]
    /\ NoHash /\ NoChannel /\ NoAcquire /\ NoWeb /\ NoProxy /\ NoTwin
    /\ pc = "idle"
    /\ loc = NoRun
    /\ hist = [runs |-> 0, completed |-> [v \in Videos |-> 0]]

Next ==
    \/ StartSave
    \/ UpsertChannel
    \/ Analyze
    \/ Extract
    \/ InsertVideo
    \/ ReplaceSegments
    \/ DeleteMentions
    \/ UpsertBrandStep
    \/ InsertBrandMention
    \/ UpsertSponsorStep
    \/ InsertSponsorMention
    \/ UpsertProductStep
    \/ InsertProductMention
    \/ Commit
    \/ StatementFails

Spec == Init /\ [][Next]_vars

\* ------------------------------------------ claims on save_video_to_db

MentionTables == {"brand_mentions", "sponsor_mentions", "product_mentions"}

\* The rows of a table that belong to a video, in row order.
RowsOf(st, table, v) == SelectSeq(st[table], LAMBDA r : r.video_id = v)

\* The rows of a table with ids that the run at hand wrote for its video:
\* AUTOINCREMENT ids above the sequence the run found.
WrittenRows(st, table) ==
    SelectSeq(RowsOf(st, table, loc.video), LAMBDA r : r.id > loc.base.seq[table])

\* The videos row the run at hand writes.
VideoRowOfRun ==
    [video_id |-> loc.video, channel_id |-> ChannelOf(loc.video),
     overall_sentiment |-> loc.sentiment,
     brands |-> json_dumps_names(loc.entities.brands),
     sponsors |-> json_dumps_names(loc.entities.sponsors),
     products |-> json_dumps_products(loc.entities.products)]

\* The product entries of the run's extraction result that name a product.
NamedProducts == SelectSeq(loc.entities.products, LAMBDA p : ~Falsy(p.product))

\* The durable store holds none of the run's rows for its video.
NothingPersisted ==
    /\ RowsOf(db, "videos", loc.video) = RowsOf(loc.base, "videos", loc.video)
    /\ \A table \in MentionTables \cup {"video_segments"} : WrittenRows(db, table) = <<>>

\* The durable store holds all of the run's rows for its video.
FullyPersisted ==
    /\ RowsOf(db, "videos", loc.video) = <<VideoRowOfRun>>
    /\ Len(WrittenRows(db, "video_segments")) = Len(loc.segments)
    /\ Len(WrittenRows(db, "brand_mentions")) = Len(loc.entities.brands)
    /\ Len(WrittenRows(db, "sponsor_mentions")) = Len(loc.entities.sponsors)
    /\ Len(WrittenRows(db, "product_mentions")) = Len(NamedProducts)

\* C1: per-video persistence is all-or-nothing: after a run of
\* save_video_to_db that raised, the durable store holds either none of the
\* rows the run wrote for its video or all of them.
C1_AllOrNothing ==
    pc = "raised" => NothingPersisted \/ FullyPersisted

\* The canonical row a mention row points to.
EntityRow(table, id) == CHOOSE r \in Range(db[table]) : r.id = id

\* The mention rows of the run's video are one per entity of the run's
\* extraction result, in its order, each written by this run with count 1
\* and the run's score, and each pointing to a canonical row of that name.
MentionsAreLatest ==
    LET score == sentiment_to_score(loc.sentiment)
        Fresh(table) ==
           \A i \in DOMAIN RowsOf(db, table, loc.video) :
              LET r == RowsOf(db, table, loc.video)[i]
              IN r.id > loc.base.seq[table] /\ r.mention_count = 1
                 /\ r.sentiment_score = score
        b == RowsOf(db, "brand_mentions", loc.video)
        s == RowsOf(db, "sponsor_mentions", loc.video)
        p == RowsOf(db, "product_mentions", loc.video)
    IN /\ \A table \in MentionTables : Fresh(table)
       /\ Len(b) = Len(loc.entities.brands)
       /\ \A i \in DOMAIN b :
             normalize_name(EntityRow("brands", b[i].brand_id).name)
                = normalize_name(loc.entities.brands[i])
       /\ Len(s) = Len(loc.entities.sponsors)
       /\ \A i \in DOMAIN s :
             normalize_name(EntityRow("sponsors", s[i].sponsor_id).name)
                = normalize_name(loc.entities.sponsors[i])
       /\ Len(p) = Len(NamedProducts)
       /\ \A i \in DOMAIN p :
             normalize_name(EntityRow("products", p[i].product_id).name)
                = normalize_name(NamedProducts[i].product)

\* C2: mention recording is a replace: after a completed run of
\* save_video_to_db, whatever runs came before, the three mention tables
\* hold for the video exactly the rows of this run's extraction result, none
\* of them written by an earlier run.
C2_MentionsReplaced ==
    pc = "done" => MentionsAreLatest

\* A second completed run for a video whose earlier mentions were durable,
\* with an extraction result other than the one stored with the earlier
\* videos row.
C2_Witness ==
    /\ pc = "done"
    /\ hist.completed[loc.video] = 2
    /\ RowsOf(loc.base, "brand_mentions", loc.video) # <<>>
    /\ RowsOf(loc.base, "product_mentions", loc.video) # <<>>
    /\ RowsOf(loc.base, "videos", loc.video)[1].brands # VideoRowOfRun.brands
    /\ RowsOf(db, "brand_mentions", loc.video) # <<>>

\* C3: after a completed run, each mention table holds at most one row per
\* (entity id, video id).
C3_OneRowPerEntity ==
    pc = "done" =>
       /\ \A i, j \in DOMAIN db.brand_mentions :
             db.brand_mentions[i].brand_id = db.brand_mentions[j].brand_id
             /\ db.brand_mentions[i].video_id = db.brand_mentions[j].video_id => i = j
       /\ \A i, j \in DOMAIN db.sponsor_mentions :
             db.sponsor_mentions[i].sponsor_id = db.sponsor_mentions[j].sponsor_id
             /\ db.sponsor_mentions[i].video_id = db.sponsor_mentions[j].video_id => i = j
       /\ \A i, j \in DOMAIN db.product_mentions :
             db.product_mentions[i].product_id = db.product_mentions[j].product_id
             /\ db.product_mentions[i].video_id = db.product_mentions[j].video_id => i = j

\* ----------------------------------- ingest_single_video, ingest_channel

\* Bound on the length of the list of videos ingest_channel walks.
MaxVideos == 2

\* A guard that finds no row.
video_already_exists_never(st, video_id) == FALSE

\* SELECT 1 FROM videos WHERE video_id = ? LIMIT 1
video_already_exists(st, video_id) ==
    \E r \in Range(st.videos) : r.video_id = video_id

\* What get_transcript_segments returns: None, or a list of segments.
NoTranscript == [none |-> TRUE, segs |-> <<>>]

Transcript(segs) == [none |-> FALSE, segs |-> segs]

\* A check that lets every result through.
NoSegments_never(segments) == FALSE

\* if not segments
NoSegments(segments) == segments.none \/ segments.segs = <<>>

\* What ingest_single_video has fetched so far in the call at hand.
NothingFetched ==
    [video |-> "none", existed |-> FALSE, meta |-> "unfetched",
     acquired |-> FALSE, segments |-> NoTranscript]

\* ingest_single_video has returned.
Returned == {"skipped", "no_metadata", "no_transcript", "done"}

\* The state ingest_channel and ingest_single_video leave alone.
IngestFrame == UNCHANGED <<ncalls, returned, w, hin, hout, acq, web, px, twin>>

\* for i, v in enumerate(videos, 1): ingest_single_video(v["id"])
\* The call begins once the call before it has returned.
CallIngest ==
    /\ chan.status = "running"
    /\ pc \in Returned \cup {"idle"}
    /\ chan.i <= Len(chan.videos)
    /\ LET v == chan.videos[chan.i]
       IN /\ chan' = [chan EXCEPT !.i = @ + 1, !.called = Append(@, v)]
          /\ loc' = [NoRun EXCEPT !.video = v, !.base = db]
          /\ last' = [NothingFetched EXCEPT !.video = v]
    /\ pc' = "guard"
    /\ UNCHANGED <<db, conn, hist>>
    /\ IngestFrame

\* ingest_channel ends: the loop is through, or an exception came out of
\* ingest_single_video (the loop has no try).
ChannelEnds ==
    /\ chan.status = "running"
    /\ \/ pc = "raised" /\ chan' = [chan EXCEPT !.status = "raised"]
       \/ /\ pc \in Returned \cup {"idle"}
          /\ chan.i > Len(chan.videos)
          /\ chan' = [chan EXCEPT !.status = "returned"]
    /\ UNCHANGED <<db, conn, pc, loc, last, hist>>
    /\ IngestFrame

\* if video_already_exists(video_id): return
CheckExists ==
    /\ pc = "guard"
    /\ pc' = IF video_already_exists(db, loc.video) THEN "skipped" ELSE "metadata"
    /\ last' = [last EXCEPT !.existed = \E r \in Range(db.videos) : r.video_id = loc.video]
    /\ UNCHANGED <<db, conn, loc, hist, chan>>
    /\ IngestFrame

\* youtube = get_authenticated_service(); video_meta = get_video_metadata(...)
\* get_video_metadata turns every failure into None; building the client
\* (credentials file) is not guarded.
FetchMetadata ==
    /\ pc = "metadata"
    /\ \E meta \in {"ok", "none", "raised"} :
          /\ last' = [last EXCEPT !.meta = meta]
          /\ pc' = CASE meta = "ok" -> "transcript"
                     [] meta = "none" -> "no_metadata"
                     [] meta = "raised" -> "raised"
          /\ loc' = IF meta = "raised" THEN [loc EXCEPT !.exc = "FileNotFoundError"] ELSE loc
    /\ UNCHANGED <<db, conn, hist, chan>>
    /\ IngestFrame

\* segments = get_transcript_segments(video_id); if not segments: return;
\* save_video_to_db(video_meta, segments), which opens its connection and
\* works on transcript_segments or [].
AcquireTranscript ==
    /\ pc = "transcript"
    /\ \/ \E segments \in {Transcript(t) : t \in PipeTranscripts} \cup {NoTranscript} :
             /\ last' = [last EXCEPT !.acquired = TRUE, !.segments = segments]
             /\ IF NoSegments(segments)
                THEN pc' = "no_transcript" /\ UNCHANGED <<loc, conn, hist>>
                ELSE /\ pc' = "channel"
                     /\ loc' = [loc EXCEPT !.segments = segments.segs]
                     /\ conn' = db
                     /\ hist' = [hist EXCEPT !.runs = @ + 1]
       \/ /\ pc' = "raised"
          /\ loc' = [loc EXCEPT !.exc = "JSONDecodeError"]
          /\ UNCHANGED <<last, conn, hist>>
    /\ UNCHANGED <<db, chan>>
    /\ IngestFrame

\* The steps of save_video_to_db.
SaveSteps ==
    \/ UpsertChannel
    \/ Analyze
    \/ Extract
    \/ InsertVideo
    \/ ReplaceSegments
    \/ DeleteMentions
    \/ UpsertBrandStep
    \/ InsertBrandMention
    \/ UpsertSponsorStep
    \/ InsertSponsorMention
    \/ UpsertProductStep
    \/ InsertProductMention
    \/ Commit
    \/ StatementFails

InitIngest ==
    /\ db = EmptyStore
    /\ conn = EmptyStore
    /\ ncalls = 0
    /\ last = NothingFetched
    /\ returned = {}
    /\ w = [i \in Writers |-> IdleWriter]
    /\ NoHash /\ NoAcquire /\ NoWeb /\ NoProxy /\ NoTwin
    /\ pc = "idle"
    /\ loc = NoRun
    /\ hist = [runs |-> 0, completed |-> [v \in Videos |-> 0]]
    /\ \E videos \in SeqsUpTo(Videos, MaxVideos) :
          chan = [videos |-> videos, i |-> 1, called |-> <<>>, status |-> "running"]

NextIngest ==
    \/ CallIngest
    \/ ChannelEnds
    \/ CheckExists
    \/ FetchMetadata
    \/ AcquireTranscript
    \/ SaveSteps

SpecIngest == InitIngest /\ [][NextIngest]_vars

\* ------------------------- claims on ingest_single_video, ingest_channel

\* C11: the re-run guard: when the videos row exists as ingest_single_video
\* is called, the call returns at once: no metadata fetch, no transcript
\* acquisition, no analysis or extraction, and the store as the call found it.
C11_GuardSkips ==
    last.existed =>
       /\ pc = "skipped"
       /\ last.meta = "unfetched" /\ ~last.acquired
       /\ loc.sentiment = None /\ loc.entities = NoEntities
       /\ db = loc.base

\* The guard has skipped a video that an earlier call ingested completely.
C11_Witness ==
    /\ pc = "skipped" /\ last.existed
    /\ hist.completed[loc.video] = 1
    /\ RowsOf(db, "brand_mentions", loc.video) # <<>>

\* C12: when the metadata fetch fails or acquisition returns no segments,
\* ingest_single_video ends there: extraction is not called and the store is
\* as the call found it (no videos, video_segments or mention row written).
C12_FailedFetchWritesNothing ==
    /\ last.meta \in {"none", "raised"} =>
          /\ pc \in {"no_metadata", "raised"}
          /\ ~last.acquired /\ loc.entities = NoEntities /\ db = loc.base
    /\ last.acquired /\ (last.segments.none \/ last.segments.segs = <<>>) =>
          /\ pc = "no_transcript"
          /\ loc.entities = NoEntities /\ db = loc.base

\* Acquisition found nothing for the second video of the list, after the
\* first was ingested.
C12_Witness ==
    /\ pc = "no_transcript" /\ last.acquired
    /\ Len(chan.called) = 2
    /\ db.videos # <<>>

\* C13: per-video failures are isolated: no exception comes out of
\* ingest_single_video, and when ingest_channel ends it has called
\* ingest_single_video for every video of its list.
C13_BatchIsolated ==
    /\ pc # "raised"
    /\ chan.status # "running" => chan.status = "returned" /\ chan.called = chan.videos

\* C14: every run of ingest_single_video that has ended has appended one
\* ingestion_logs row, carrying the video id of the run.
C14_OneLogRowPerRun ==
    pc \in Returned \cup {"raised"} =>
       /\ Len(db.ingestion_logs) = Len(chan.called)
       /\ \A i \in DOMAIN db.ingestion_logs :
             db.ingestion_logs[i].video_id = chan.called[i]

\* ------------------------------------------------ transcript acquisition

\* Bound on the number of get_transcript_segments calls of a run of the model.
MaxAcquires == 2

\* The cache files of a video id, in the order transcript.py looks for
\* them: {id}.json, {id}_rapidapi.json, {id}_from_rapidapi.json.
CacheNames == <<"std", "rapidapi", "from_rapidapi">>

\* What a cache file holds: nothing (no file), text that is not JSON (a
\* write that was cut short), or a list of segments.
Absent == [kind |-> "absent", segs |-> <<>>]

Malformed == [kind |-> "malformed", segs |-> <<>>]

Stored(segs) == [kind |-> "segments", segs |-> segs]

\* One attempt of a source: which source, by which route, how it ended, the
\* number of network requests it issued, and whether it yielded segments.
Attempt(source, via, status, net, yielded) ==
    [source |-> source, via |-> via, status |-> status, net |-> net, yielded |-> yielded]

\* What a function of the chain leaves: its result, the cache files, the
\* proxy pool, the attempts it made, the exception it raised ("none" if it
\* returned).
Acquired(res, files, proxies, log, exc) ==
    [res |-> res, files |-> files, proxies |-> proxies, log |-> log, exc |-> exc]

\* The segments a network source may deliver.
Delivered == PipeTranscripts

\* How the captions request may end.
CaptionsFailures == {"200_empty", "200_malformed", "200_not_list", "403", "429", "500", "error"}

\* transcript_pipeline.try_rapidapi_transcript: no key, no lookup; a cache
\* file is read with json.load outside any try; a 200 with cues is written
\* to {id}_rapidapi.json; every other answer is None.
try_rapidapi_transcript(env) ==
    IF ~env.key THEN {Acquired(NoTranscript, env.files, env.proxies, <<>>, "none")}
    ELSE IF env.files.rapidapi.kind = "malformed"
    THEN {Acquired(NoTranscript, env.files, env.proxies,
                   <<Attempt("cache", "file", "unreadable", 0, FALSE)>>, "JSONDecodeError")}
    ELSE IF env.files.rapidapi.kind = "segments"
    THEN {Acquired(Transcript(env.files.rapidapi.segs), env.files, env.proxies,
                   <<Attempt("cache", "file", "read", 0, env.files.rapidapi.segs # <<>>)>>,
                   "none")}
    ELSE {Acquired(Transcript(t), [env.files EXCEPT !.rapidapi = Stored(t)], env.proxies,
                   <<Attempt("captions", "api", "200", 1, TRUE)>>, "none") : t \in Delivered}
         \cup
         {Acquired(NoTranscript, env.files, env.proxies,
                   <<Attempt("captions", "api", status, 1, FALSE)>>, "none")
            : status \in CaptionsFailures}

\* build_transcript_segments_from_audio(video_id, use_proxy, use_cookies):
\* download_audio_with_ytdlp, then transcribe_audio_local.  Both swallow
\* their failures; the segments are returned as the service sent them
\* (possibly none), and nothing is written to the transcript cache.
build_transcript_segments_from_audio(env, via) ==
    {Acquired(NoTranscript, env.files, env.proxies,
              <<Attempt("audio_stt", via, "download_failed", 1, FALSE)>>, "none")}
    \cup
    (IF ~env.whisper
     THEN {Acquired(NoTranscript, env.files, env.proxies,
                    <<Attempt("audio_stt", via, "no_asr", 1, FALSE)>>, "none")}
     ELSE {Acquired(Transcript(t), env.files, env.proxies,
                    <<Attempt("audio_stt", via, "200", 2, t # <<>>)>>, "none")
             : t \in Delivered \cup {<<>>}}
          \cup
          {Acquired(NoTranscript, env.files, env.proxies,
                    <<Attempt("audio_stt", via, "asr_failed", 2, FALSE)>>, "none")})

\* A source after the sources before it: it is tried when they returned
\* without segments, and its attempts follow theirs.
OrElse(env, before, source(_)) ==
    UNION { IF o.exc # "none" \/ ~NoSegments(o.res) THEN {o}
            ELSE { [n EXCEPT !.log = o.log \o n.log]
                     : n \in source([env EXCEPT !.files = o.files, !.proxies = o.proxies]) }
            : o \in before }

\* transcript_pipeline.get_transcript_segments, the chain ingest_single_video
\* calls: RapidAPI, then audio through the proxy, then audio with cookies.
get_transcript_segments(env) ==
    LET all == OrElse(env,
                 OrElse(env, try_rapidapi_transcript(env),
                        LAMBDA e : build_transcript_segments_from_audio(e, "proxy")),
                 LAMBDA e : build_transcript_segments_from_audio(e, "cookies"))
    IN { IF o.exc = "none" /\ NoSegments(o.res) THEN [o EXCEPT !.res = NoTranscript] ELSE o
           : o \in all }

\* transcript.py: the cache check over possible_names.  A file that does
\* not parse is passed over (except: pass); the first that parses is
\* returned as it is.
RECURSIVE cache_lookup(_, _, _)
cache_lookup(env, i, log) ==
    IF i > Len(CacheNames)
    THEN Acquired(NoTranscript, env.files, env.proxies, log, "none")
    ELSE LET name == CacheNames[i]
             f == env.files[name]
         IN IF f.kind = "absent" THEN cache_lookup(env, i + 1, log)
            ELSE IF f.kind = "malformed"
            THEN cache_lookup(env, i + 1,
                              Append(log, Attempt("cache", name, "unreadable", 0, FALSE)))
            ELSE Acquired(Transcript(f.segs), env.files, env.proxies,
                          Append(log, Attempt("cache", name, "read", 0, f.segs # <<>>)),
                          "none")

\* transcript.py, PRIORITY 1: the RapidAPI request, inside try/except.
rapidapi_request(env) ==
    IF ~env.key THEN {Acquired(NoTranscript, env.files, env.proxies, <<>>, "none")}
    ELSE {Acquired(Transcript(t), env.files, env.proxies,
                   <<Attempt("captions", "api", "200", 1, TRUE)>>, "none") : t \in Delivered}
         \cup
         {Acquired(NoTranscript, env.files, env.proxies,
                   <<Attempt("captions", "api", status, 1, FALSE)>>, "none")
            : status \in CaptionsFailures}

\* How a subtitle download through yt-dlp may fail.
ScrapeFailures == {"no_subs", "failed", "parse_failed"}

\* transcript.py download_with_ytdlp(video_id, use_proxy, use_cookies): no
\* proxy (after fetch_proxies, when the pool is empty) or no cookie file is
\* None at once; every failure of the download is None.
download_with_ytdlp(env, via) ==
    LET Scrape(source, proxies, net) ==
          {Acquired(Transcript(t), env.files, proxies,
                    <<Attempt(source, via, "ok", net, TRUE)>>, "none") : t \in Delivered}
          \cup
          {Acquired(NoTranscript, env.files, proxies,
                    <<Attempt(source, via, status, net, FALSE)>>, "none")
             : status \in ScrapeFailures}
    IN IF via = "proxy"
       THEN IF env.proxies THEN Scrape("proxy_scrape", TRUE, 1)
            ELSE Scrape("proxy_scrape", TRUE, 2)
                 \cup {Acquired(NoTranscript, env.files, FALSE,
                                <<Attempt("proxy_scrape", via, "no_proxy", 1, FALSE)>>, "none")}
       ELSE IF env.cookies THEN Scrape("cookie_scrape", env.proxies, 1)
            ELSE {Acquired(NoTranscript, env.files, env.proxies,
                           <<Attempt("cookie_scrape", via, "no_cookie_file", 0, FALSE)>>,
                           "none")}

\* transcript.py get_transcript_segments: cache, RapidAPI, proxy, cookies;
\* segments from any of the three sources are written to {id}.json.
transcript_get_transcript_segments(env) ==
    LET cached == cache_lookup(env, 1, <<>>)
        fetched == OrElse(env,
                     OrElse(env,
                       { [o EXCEPT !.log = cached.log \o o.log] : o \in rapidapi_request(env) },
                       LAMBDA e : download_with_ytdlp(e, "proxy")),
                     LAMBDA e : download_with_ytdlp(e, "cookies"))
    IN IF cached.log # <<>> /\ cached.log[Len(cached.log)].status = "read"
       THEN {cached}
       ELSE { IF NoSegments(o.res) THEN [o EXCEPT !.res = NoTranscript]
              ELSE [o EXCEPT !.files.std = Stored(o.res.segs)]
                : o \in fetched }

\* The state acquisition leaves alone.
AcquireFrame ==
    UNCHANGED <<db, conn, ncalls, last, returned, w, hin, hout, pc, loc, hist, chan, web, px, twin>>

NeverAcquired ==
    [fn |-> "none", before |-> [n \in {"std", "rapidapi", "from_rapidapi"} |-> Absent],
     res |-> NoTranscript, log |-> <<>>, exc |-> "none"]

\* The temporary files an attempt leaves on disk.  The audio file that
\* download_audio_with_ytdlp returned is removed by nobody; the subtitle
\* file is removed after parse_vtt_file returned, so it stays when the
\* parse raised.
LeftOnDisk(attempt) ==
    IF attempt.source = "audio_stt" /\ attempt.status \in {"no_asr", "200", "asr_failed"}
    THEN {"audio"}
    ELSE IF attempt.source \in {"proxy_scrape", "cookie_scrape"}
            /\ attempt.status = "parse_failed"
    THEN {"subtitle"}
    ELSE {}

\* One call of a get_transcript_segments; acq.last keeps the function
\* called, the cache files it found, and what it left.
AcquireCall(fn, o) ==
    /\ acq' = [acq EXCEPT !.files = o.files, !.proxies = o.proxies, !.calls = @ + 1,
                          !.temp = @ \cup UNION {LeftOnDisk(o.log[i]) : i \in DOMAIN o.log},
                          !.last = [fn |-> fn, before |-> acq.files, res |-> o.res,
                                    log |-> o.log, exc |-> o.exc],
                          !.prev = [fn |-> acq.last.fn, res |-> acq.last.res,
                                    exc |-> acq.last.exc]]
    /\ AcquireFrame

AcquirePipeline ==
    /\ acq.calls < MaxAcquires
    /\ \E o \in get_transcript_segments(acq) : AcquireCall("transcript_pipeline", o)

AcquireTranscriptPy ==
    /\ acq.calls < MaxAcquires
    /\ \E o \in transcript_get_transcript_segments(acq) : AcquireCall("transcript", o)

InitAcquire ==
    /\ db = EmptyStore
    /\ conn = EmptyStore
    /\ ncalls = 0
    /\ last = NoCall
    /\ returned = {}
    /\ w = [i \in Writers |-> IdleWriter]
    /\ NoHash /\ NoPipeline /\ NoChannel /\ NoWeb /\ NoProxy /\ NoTwin
    /\ \E key \in BOOLEAN, whisper \in BOOLEAN, cookies \in BOOLEAN,
          std \in {Absent} \cup {Stored(t) : t \in Delivered},
          rapidapi \in {Absent, Malformed} \cup {Stored(t) : t \in Delivered} :
          acq = [key |-> key, whisper |-> whisper, cookies |-> cookies,
                 files |-> [n \in {"std", "rapidapi", "from_rapidapi"} |->
                              IF n = "std" THEN std
                              ELSE IF n = "rapidapi" THEN rapidapi ELSE Absent],
                 proxies |-> FALSE, calls |-> 0, temp |-> {}, last |-> NeverAcquired,
                 prev |-> [fn |-> "none", res |-> NoTranscript, exc |-> "none"]]

NextAcquire ==
    \/ AcquirePipeline
    \/ AcquireTranscriptPy

SpecAcquire == InitAcquire /\ [][NextAcquire]_vars

----------------------------------------------------------------------------
\* Claims on the acquisition chain.

\* The place of a source in the order the chain is to follow.
SourceRank(source) ==
    CASE source = "cache" -> 1
      [] source = "captions" -> 2
      [] source = "proxy_scrape" -> 3
      [] source = "cookie_scrape" -> 4
      [] source = "audio_stt" -> 5

\* The network requests of a list of attempts.
RECURSIVE NetCalls(_)
NetCalls(log) == IF log = <<>> THEN 0 ELSE Head(log).net + NetCalls(Tail(log))

\* The cache files that held a transcript when the last call began.
ValidCached ==
    {n \in DOMAIN acq.last.before :
        acq.last.before[n].kind = "segments" /\ acq.last.before[n].segs # <<>>}

\* C15: an acquire tries the sources in the order cache, captions API, proxy
\* scrape, cookie scrape, audio + speech-to-text, each network source at
\* most once, none after the first that yields segments; after a 403 or a
\* 429 of the captions API the next attempt is the proxy scrape.
C15_FixedOrder ==
    acq.last.fn # "none" =>
      LET log == acq.last.log
      IN /\ \A i, j \in DOMAIN log :
               i < j => /\ SourceRank(log[i].source) <= SourceRank(log[j].source)
                        /\ log[j].source # "cache" => log[i].source # log[j].source
         /\ \A i \in DOMAIN log : log[i].yielded => i = Len(log)
         /\ \A i \in DOMAIN log :
               log[i].source = "captions" /\ log[i].status \in {"403", "429"}
               => i < Len(log) /\ log[i + 1].source = "proxy_scrape"

\* C16: when a cache file holds a transcript, get_transcript_segments
\* returns it and issues no network request, whatever the configuration.
C16_CacheShortCircuit ==
    acq.last.fn # "none" /\ ValidCached # {} =>
      /\ acq.last.exc = "none"
      /\ \E n \in ValidCached : acq.last.res = Transcript(acq.last.before[n].segs)
      /\ NetCalls(acq.last.log) = 0

\* C17: segments returned from a source other than the cache are in a cache
\* file of the video when get_transcript_segments returns.
C17_SuccessIsCached ==
    /\ acq.last.fn # "none"
    /\ acq.last.exc = "none"
    /\ ~acq.last.res.none /\ acq.last.res.segs # <<>>
    /\ acq.last.log[Len(acq.last.log)].source # "cache"
    => \E n \in DOMAIN acq.files : acq.files[n] = Stored(acq.last.res.segs)

\* C18: get_transcript_segments never raises: it returns segments or None,
\* and an attempt that fails is followed by the next source or by None.
C18_NoFailureEscapes ==
    acq.last.fn # "none" =>
      /\ acq.last.exc = "none"
      /\ acq.last.res.none \/ acq.last.res.segs # <<>>

----------------------------------------------------------------------------
\* Claim on the rows of a first ingestion.

\* C19: after a completed first ingestion of a video the store holds one
\* videos row for it, one video_segments row per segment, one brand_mentions
\* row per extracted brand, one product_mentions row per extracted product,
\* and the products row of every product whose brand hint names an
\* extracted brand has the id of that brands row as its brand_id.
C19_FirstIngestionRows ==
    pc = "done" /\ RowsOf(loc.base, "videos", loc.video) = <<>> =>
      LET m == RowsOf(db, "product_mentions", loc.video)
      IN /\ Len(RowsOf(db, "videos", loc.video)) = 1
         /\ Len(RowsOf(db, "video_segments", loc.video)) = Len(loc.segments)
         /\ Len(RowsOf(db, "brand_mentions", loc.video)) = Len(loc.entities.brands)
         /\ Len(m) = Len(NamedProducts)
         /\ \A i \in DOMAIN NamedProducts :
               LET hint == NamedProducts[i].brand
               IN (~Falsy(hint) /\ \E b \in Range(loc.entities.brands) : b = hint)
                  => \E br \in Range(db.brands) :
                        /\ normalize_name(br.name) = normalize_name(hint)
                        /\ EntityRow("products", m[i].product_id).brand_id = br.id

----------------------------------------------------------------------------
\* The product page of the web application and its cached report.

MaxReports == 1

NoRequest == [product_id |-> 0, seen |-> 0]

\* INSERT INTO cached_dashboards ... ON CONFLICT(key) DO UPDATE for the key
\* product:{product_id}:intel_v2.  stamp is the moment of the write, told by
\* the last product_mentions id given out by then.
save_intelligence(st, product_id, now) ==
    [st EXCEPT !.cached_dashboards =
        {r \in @ : ~(r.kind = "product" /\ r.id = product_id /\ r.version = "intel_v2")}
        \cup {[kind |-> "product", id |-> product_id, version |-> "intel_v2",
                stamp |-> now]}]

\* The products for which product_profile hands get_product_intelligence a
\* context that is not empty: the product exists and a mention of it joins
\* a videos row.
WithContext(st) ==
    {p.id : p \in Range(st.products)} \cap
    {m.product_id : m \in {x \in Range(st.product_mentions) :
                               \E v \in Range(st.videos) : v.video_id = x.video_id}}

DashFrame ==
    UNCHANGED <<ncalls, last, returned, w, hin, hout, pc, loc, hist, chan, acq, px, twin>>

\* product_profile up to the LLM request of get_product_intelligence: the
\* page reads what is committed.  (A request that is served from the cache
\* changes nothing and is not a step.)
ProductProfile ==
    /\ web.req = NoRequest
    /\ web.reports < MaxReports
    /\ \E p \in WithContext(db) :
          web' = [web EXCEPT !.req = [product_id |-> p, seen |-> db.seq.product_mentions]]
    /\ UNCHANGED <<db, conn>>
    /\ DashFrame

\* get_product_intelligence from the answer of the LLM on: the answer is
\* saved and committed, or an exception (of the LLM, of json.loads, of a
\* locked database) is caught and nothing is saved.  The INSERT waits for
\* the write lock, which the ingestion connection holds from its first
\* pending write to its commit or close.
SaveIntelligence ==
    /\ web.req # NoRequest
    /\ \/ /\ conn = db
          /\ db' = save_intelligence(db, web.req.product_id, db.seq.product_mentions)
          /\ conn' = db'
          /\ web' = [web EXCEPT !.req = NoRequest, !.reports = @ + 1,
                                !.saved = [product_id |-> web.req.product_id,
                                           stamp |-> db.seq.product_mentions]]
       \/ /\ web' = [web EXCEPT !.req = NoRequest, !.reports = @ + 1]
          /\ UNCHANGED <<db, conn>>
    /\ DashFrame

InitDash ==
    /\ db = EmptyStore
    /\ conn = EmptyStore
    /\ ncalls = 0
    /\ last = NoCall
    /\ returned = {}
    /\ w = [i \in Writers |-> IdleWriter]
    /\ NoHash /\ NoChannel /\ NoAcquire /\ NoProxy /\ NoTwin
    /\ pc = "idle"
    /\ loc = NoRun
    /\ hist = [runs |-> 0, completed |-> [v \in Videos |-> 0]]
    /\ web = [req |-> NoRequest, reports |-> 0, saved |-> [product_id |-> 0, stamp |-> 0]]

NextDash ==
    \/ Next
    \/ ProductProfile
    \/ SaveIntelligence

SpecDash == InitDash /\ [][NextDash]_vars

\* C20: the committed store never holds a cached report of a product, under
\* the key of the current report version, that was written before a
\* committed product_mentions row of that product: the mention and the
\* deletion of the report become visible together.
C20_ReportInvalidated ==
    \A r \in db.cached_dashboards :
       r.kind = "product" /\ r.version = "intel_v2" =>
          \A m \in Range(db.product_mentions) : m.product_id = r.id => m.id <= r.stamp

\* A report was saved for a product, a mention of the product was committed
\* after it, and the report is gone.
C20_Witness ==
    /\ web.saved.product_id # 0
    /\ \E m \in Range(db.product_mentions) :
          m.product_id = web.saved.product_id /\ m.id > web.saved.stamp
    /\ \A r \in db.cached_dashboards : r.id # web.saved.product_id

----------------------------------------------------------------------------
\* Claims on failures inside extraction.

\* C21: a failure of the LLM call never aborts extraction:
\* extract_entities_for_video returns, after at most 5 requests, and a call
\* that failed contributes no entities.
C21_LLMFailureContained ==
    last.video # "none" =>
       /\ last.exc = "none"
       /\ last.requests <= 5

\* C22: after an acquire has returned, whatever its attempts came to, no
\* temporary audio or subtitle file of the video is on disk.
C22_TempFilesCleaned ==
    acq.last.fn # "none" => acq.temp = {}

----------------------------------------------------------------------------
\* Claim on the aggregation of extracted entities.

\* C23: in the result of extraction no two brand names and no two sponsor
\* names are equal after trim-and-lowercase, and no two product entries
\* have the same (brand, product) pair.
C23_Deduplicated ==
    last.video # "none" /\ last.exc = "none" =>
       LET e == last.val
           Distinct(names) ==
              \A i, j \in DOMAIN names :
                 i # j => normalize_name(names[i]) # normalize_name(names[j])
       IN /\ Distinct(e.brands)
          /\ Distinct(e.sponsors)
          /\ \A i, j \in DOMAIN e.products : i # j => e.products[i] # e.products[j]

----------------------------------------------------------------------------
\* The proxy pool of transcript.py: the module global WORKING_PROXIES, read
\* and assigned by get_random_proxy and fetch_proxies with no lock.  Every
\* read or assignment of the global is one step of a thread.

Threads == {1, 2}

MaxProxyCalls == 2

\* The lists the proxy service may send with a 200: two proxies, one, or an
\* empty body.
ProxyLists == {{"p1", "p2"}, {"p3"}, {}}

ProxyFrame ==
    UNCHANGED <<db, conn, ncalls, last, returned, w, hin, hout, pc, loc, hist, chan, acq, web,
                twin>>

\* A thread takes a step: its position, what it returned or raised.
ThreadStep(t, at, res, exc, pool) ==
    /\ px' = [px EXCEPT !.thread[t].pc = at, !.thread[t].res = res,
                        !.thread[t].exc = exc, !.pool = pool]
    /\ ProxyFrame

\* download_with_ytdlp(use_proxy=True) calls get_random_proxy().
CallGetRandomProxy(t) ==
    /\ px.thread[t].pc \in {"idle", "returned"}
    /\ px.thread[t].calls < MaxProxyCalls
    /\ px' = [px EXCEPT !.thread[t].pc = "if_not", !.thread[t].res = "None",
                        !.thread[t].calls = @ + 1]
    /\ ProxyFrame

\* if not WORKING_PROXIES: fetch_proxies()
TestEmpty(t) ==
    /\ px.thread[t].pc = "if_not"
    /\ ThreadStep(t, IF px.pool = {} THEN "fetching" ELSE "if_pool", "None", "none", px.pool)

\* fetch_proxies: the request returns.  A 200 assigns the list sent; any
\* other status leaves the pool; an exception assigns [].
FetchProxies(t) ==
    /\ px.thread[t].pc = "fetching"
    /\ \/ \E sent \in ProxyLists :
             /\ px' = [px EXCEPT !.thread[t].pc = "if_pool", !.pool = sent,
                                 !.fetched = @ \cup sent]
             /\ ProxyFrame
       \/ ThreadStep(t, "if_pool", "None", "none", px.pool)
       \/ ThreadStep(t, "if_pool", "None", "none", {})

\* return random.choice(WORKING_PROXIES) if WORKING_PROXIES else None:
\* the condition reads the global.
TestPool(t) ==
    /\ px.thread[t].pc = "if_pool"
    /\ ThreadStep(t, IF px.pool = {} THEN "returned" ELSE "choice", "None", "none", px.pool)

\* random.choice(WORKING_PROXIES) reads the global again; on an empty list
\* it raises IndexError.
Choice(t) ==
    /\ px.thread[t].pc = "choice"
    /\ IF px.pool = {} THEN ThreadStep(t, "raised", "None", "IndexError", px.pool)
       ELSE \E p \in px.pool : ThreadStep(t, "returned", p, "none", px.pool)

InitProxy ==
    /\ db = EmptyStore
    /\ conn = EmptyStore
    /\ ncalls = 0
    /\ last = NoCall
    /\ returned = {}
    /\ w = [i \in Writers |-> IdleWriter]
    /\ NoHash /\ NoPipeline /\ NoChannel /\ NoAcquire /\ NoWeb /\ NoTwin
    /\ px = [pool |-> {}, fetched |-> {},
             thread |-> [t \in Threads |->
                           [pc |-> "idle", res |-> "None", exc |-> "none", calls |-> 0]]]

NextProxy ==
    \E t \in Threads :
       \/ CallGetRandomProxy(t)
       \/ TestEmpty(t)
       \/ FetchProxies(t)
       \/ TestPool(t)
       \/ Choice(t)

SpecProxy == InitProxy /\ [][NextProxy]_vars

\* C24: whatever the interleaving of the threads, get_random_proxy returns
\* None or a member of a fetched proxy list, and never raises.
C24_PoolTolerant ==
    \A t \in Threads :
       /\ px.thread[t].pc # "raised"
       /\ px.thread[t].pc = "returned" =>
             px.thread[t].res = "None" \/ px.thread[t].res \in px.fetched

----------------------------------------------------------------------------
\* Extraction over a cache row that save_extraction_cache did not write as
\* it stands: a column is not JSON, or is JSON that is no list.

\* The transcript whose hash the row carries.
CachedTranscript == << Seg(0, 2, <<"a">>), Seg(2, 5, <<"A", "b", " ", "P">>) >>

\* What a column of the row may hold: the text json.dumps wrote, text that
\* does not parse, or null.
ColumnTexts(good) == {good, <<"[">>, JsonNull}

\* The rows with at least one unusable column.
UnusableRows ==
    LET b == json_dumps_names(<< <<"A", "b">> >>)
        p == json_dumps_products(<< Product(<<"A", "b">>, <<"P">>) >>)
        s == json_dumps_names(<<>>)
    IN { [video_id |-> "V1",
          transcript_hash |-> compute_transcript_hash(SortByStart(CachedTranscript)),
          brands_json |-> bj, products_json |-> pj, sponsors_json |-> sj]
         : <<bj, pj, sj>> \in (ColumnTexts(b) \X ColumnTexts(p) \X ColumnTexts(s))
                                \ {<<b, p, s>>} }

InitCorrupt ==
    /\ \E row \in UnusableRows :
          /\ db = [EmptyStore EXCEPT !.video_extraction_cache = <<row>>]
          /\ conn = db
    /\ ncalls = 0
    /\ returned = {}
    /\ w = [i \in Writers |-> IdleWriter]
    /\ NoHash /\ NoChannel /\ NoAcquire /\ NoWeb /\ NoProxy /\ NoTwin
    /\ pc = "off" /\ loc = <<>>
    /\ last = [video |-> "none", segments |-> <<>>, exc |-> "none", val |-> NoEntities,
               requests |-> 0, stored |-> {}, prev |-> NeverCalled]
    /\ hist = [calls |-> <<>>, latest |-> [v \in Videos |-> NeverCalled]]

NextCorrupt == ExtractCall

SpecCorrupt == InitCorrupt /\ [][NextCorrupt]_vars

\* C25: a cache row with a matching hash and unusable content is a cache
\* miss: the first call for the row's video and transcript asks the LLM
\* and the cache does not make it raise.
C25_UnusableCacheIsMiss ==
    /\ Len(hist.calls) = 1
    /\ last.video = "V1"
    /\ SortByStart(last.segments) = SortByStart(CachedTranscript)
    => /\ last.requests = 1
       /\ last.exc # "TypeError"

----------------------------------------------------------------------------
\* Claims on the brand_id of product mentions.

\* C26: save_video_to_db does not need a brand to have been processed
\* before it inserts a product mention: a run whose extraction result has
\* no brands and some products does not raise at that insert.
C26_ProductsWithoutBrands ==
    pc = "raised" /\ loc.entities.brands = <<>> /\ loc.entities.products # <<>>
    => loc.exc # "UnboundLocalError"

\* C27: every committed product_mentions row carries a brand_id that is
\* NULL or the brand_id of the products row it points to.
C27_MentionBrandIsProductBrand ==
    \A m \in Range(db.product_mentions) :
       m.brand_id = 0 \/ m.brand_id = EntityRow("products", m.product_id).brand_id

----------------------------------------------------------------------------
\* Claim on the guard of ingest_single_video after a failed run.

\* C28: a videos row exists only for a video whose segments and mentions
\* were persisted completely: after a run of ingest_single_video that
\* raised, the store holds no videos row for its video, so that the next
\* call does not skip it.
C28_GuardOnlyForComplete ==
    pc = "raised" /\ ~last.existed => RowsOf(db, "videos", loc.video) = <<>>

----------------------------------------------------------------------------
\* Two runs of ingest_single_video for one video at the same time, each on
\* a connection of its own (get_db_connection), both past
\* video_already_exists and past extraction.  SQLite lets one connection
\* write at a time: the first write of a transaction takes the lock, commit
\* or close gives it back; reads see what is committed.

Runs == {1, 2}

\* Extraction results without a repeated name, the same for both runs.
TwinEntities ==
    { Entities(<<<<"A", "b">>>>, <<Product(<<"A", "b">>, <<"P">>)>>, <<>>),
      Entities(<< <<"A", "b">>, <<"C">> >>, <<Product(<<"A", "b">>, <<"Q">>)>>, <<>>),
      Entities(<<<<"A", "b">>>>, <<>>, <<<<"S">>>>) }

\* The store the runs find: empty, or with the brand "Ab" from an earlier
\* video.
TwinStores ==
    {EmptyStore} \cup {o.st : o \in upsert_brand(EmptyStore, <<"A", "b">>)}

TwinFrame ==
    UNCHANGED <<conn, ncalls, last, returned, w, hin, hout, pc, loc, hist, chan, acq, web, px>>

\* What the connection of run r sees.
View(r) == IF twin.lock = r THEN twin.view ELSE db

\* A statement of run r that leaves its connection seeing st, with or
\* without a commit after it; the run goes on at position at.  An INSERT or
\* DELETE (wrote) opens a transaction and needs the write lock, whether or
\* not it changes a row.
Effect(r, st, wrote, commit, at, var, id) ==
    LET run == [twin.run EXCEPT ![r].pc = at.pc, ![r].i = at.i, ![r][var] = id]
    IN /\ wrote => twin.lock \in {0, r}
       /\ IF commit /\ (wrote \/ twin.lock = r)
          THEN /\ db' = st
               /\ twin' = [twin EXCEPT !.lock = 0, !.view = st, !.run = run]
          ELSE IF wrote
          THEN /\ twin' = [twin EXCEPT !.lock = r, !.view = st, !.run = run]
               /\ UNCHANGED db
          ELSE /\ twin' = [twin EXCEPT !.run = run]
               /\ UNCHANGED db
       /\ TwinFrame

\* An exception leaves save_video_to_db: finally closes the connection and
\* what it had pending is rolled back.
TwinRaise(r, exc) ==
    /\ twin' = [twin EXCEPT !.run[r].pc = "raised", !.run[r].exc = exc,
                            !.lock = IF @ = r THEN 0 ELSE @,
                            !.view = IF twin.lock = r THEN db ELSE @]
    /\ UNCHANGED db
    /\ TwinFrame

TwinInsertVideo(r) ==
    /\ twin.run[r].pc = "video"
    /\ Effect(r, insert_or_replace_video(View(r), twin.video, Neutral, twin.entities),
              TRUE, FALSE, [pc |-> "segments", i |-> 0], "exc", "none")

TwinReplaceSegments(r) ==
    /\ twin.run[r].pc = "segments"
    /\ Effect(r, replace_segments(View(r), twin.video, twin.segments),
              TRUE, FALSE, [pc |-> "mentions", i |-> 0], "exc", "none")

TwinDeleteMentions(r) ==
    /\ twin.run[r].pc = "mentions"
    /\ Effect(r, delete_mentions(View(r), twin.video),
              TRUE, FALSE, LoopPc(twin.entities, "brand", 1), "exc", "none")

\* upsert_brand, upsert_sponsor or upsert_product called by a loop.
TwinUpsert(r) ==
    /\ twin.run[r].pc \in {"brand", "sponsor", "product"}
    /\ LET kind == twin.run[r].pc
           i == twin.run[r].i
           e == twin.entities
           outcomes ==
             IF kind = "brand" THEN upsert_brand(View(r), e.brands[i])
             ELSE IF kind = "sponsor" THEN upsert_sponsor(View(r), e.sponsors[i])
             ELSE upsert_product(View(r), e.products[i].product,
                                 IF Falsy(e.products[i].brand) THEN main_brand_name(e)
                                 ELSE e.products[i].brand)
       IN \E o \in outcomes :
             IF o.exc # "none" THEN TwinRaise(r, o.exc)
             ELSE Effect(r, o.st, o.st # View(r), o.commit,
                         IF o.id # 0 THEN [pc |-> kind \o "_mention", i |-> i]
                         ELSE LoopPc(e, kind, i + 1),
                         kind \o "_id", o.id)

\* The mention INSERT of a loop.
TwinInsertMention(r) ==
    /\ twin.run[r].pc \in {"brand_mention", "sponsor_mention", "product_mention"}
    /\ LET me == twin.run[r]
           score == sentiment_to_score(Neutral)
       IN IF me.pc = "brand_mention"
          THEN Effect(r, insert_brand_mention(View(r), me.brand_id, twin.video, score),
                      TRUE, FALSE, LoopPc(twin.entities, "brand", me.i + 1), "exc", "none")
          ELSE IF me.pc = "sponsor_mention"
          THEN Effect(r, insert_sponsor_mention(View(r), me.sponsor_id, twin.video, score),
                      TRUE, FALSE, LoopPc(twin.entities, "sponsor", me.i + 1), "exc", "none")
          ELSE IF me.brand_id = Unbound THEN TwinRaise(r, "UnboundLocalError")
          ELSE Effect(r, insert_product_mention(View(r), me.product_id, me.brand_id,
                                                 twin.video, score),
                      TRUE, FALSE, LoopPc(twin.entities, "product", me.i + 1), "exc", "none")

\* conn.commit() at the end of save_video_to_db.
TwinCommit(r) ==
    /\ twin.run[r].pc = "commit"
    /\ Effect(r, View(r), FALSE, TRUE, [pc |-> "done", i |-> 0], "exc", "none")

\* A write waits for the lock the other connection holds; after the
\* timeout of the connection it raises "database is locked".
TwinBusy(r) ==
    /\ twin.run[r].pc \in {"video", "segments", "mentions", "brand_mention",
                            "sponsor_mention", "product_mention"}
    /\ twin.lock \notin {0, r}
    /\ TwinRaise(r, "OperationalError")

InitTwin ==
    /\ db \in TwinStores
    /\ conn = EmptyStore
    /\ ncalls = 0
    /\ last = NoCall
    /\ returned = {}
    /\ w = [i \in Writers |-> IdleWriter]
    /\ NoHash /\ NoPipeline /\ NoChannel /\ NoAcquire /\ NoWeb /\ NoProxy
    /\ \E v \in Videos, segments \in PipeTranscripts, e \in TwinEntities :
          twin = [lock |-> 0, view |-> db, video |-> v, segments |-> segments,
                  entities |-> e,
                  run |-> [r \in Runs |->
                             [pc |-> "video", i |-> 0, brand_id |-> Unbound,
                              sponsor_id |-> Unbound, product_id |-> Unbound,
                              exc |-> "none"]]]

NextTwin ==
    \E r \in Runs :
       \/ TwinInsertVideo(r)
       \/ TwinReplaceSegments(r)
       \/ TwinDeleteMentions(r)
       \/ TwinUpsert(r)
       \/ TwinInsertMention(r)
       \/ TwinCommit(r)
       \/ TwinBusy(r)

SpecTwin == InitTwin /\ [][NextTwin]_vars

\* C29: when both runs have completed, the store holds for the video one
\* videos row, one video_segments row per segment, and at most one mention
\* row per entity in each mention table.
C29_ConcurrentRunsConverge ==
    (\A r \in Runs : twin.run[r].pc = "done") =>
       LET v == twin.video
           OnePer(table, key) ==
              \A i, j \in DOMAIN RowsOf(db, table, v) :
                 RowsOf(db, table, v)[i][key] = RowsOf(db, table, v)[j][key] => i = j
       IN /\ Len(RowsOf(db, "videos", v)) = 1
          /\ Len(RowsOf(db, "video_segments", v)) = Len(twin.segments)
          /\ OnePer("brand_mentions", "brand_id")
          /\ OnePer("sponsor_mentions", "sponsor_id")
          /\ OnePer("product_mentions", "product_id")

----------------------------------------------------------------------------
\* utils/reset_channel.py, run between two calls of ingest_single_video.

Channels == {ChannelOf(v) : v \in Videos}

\* video_ids = SELECT video_id FROM videos WHERE channel_id = ?; nothing is
\* done when there is none; else the DELETEs of steps 2 to 5 and the commit.
reset_channel(st, channel_id) ==
    LET video_ids == {r.video_id : r \in {q \in Range(st.videos) : q.channel_id = channel_id}}
        OtherChannel(r) == r.channel_id # channel_id
        OtherVideo(r) == r.video_id \notin video_ids
    IN IF video_ids = {} THEN st
       ELSE [st EXCEPT
               !.brand_mentions = SelectSeq(@, OtherChannel),
               !.product_mentions = SelectSeq(@, OtherChannel),
               !.video_extraction_cache = SelectSeq(@, OtherVideo),
               !.videos = SelectSeq(@, OtherChannel),
               !.video_segments = SelectSeq(@, OtherVideo)]

\* One run of the script, on a connection of its own, while no
\* ingest_single_video is under way.
ResetChannel ==
    /\ pc \in Returned \cup {"idle"}
    /\ \E ch \in Channels :
          /\ db' = reset_channel(db, ch)
          /\ last' = [op |-> "reset_channel", channel |-> ch,
                      video_ids |-> {r.video_id : r \in {q \in Range(db.videos) :
                                                          q.channel_id = ch}}]
    /\ UNCHANGED <<conn, pc, loc, hist, chan>>
    /\ IngestFrame

NextReset ==
    \/ NextIngest
    \/ ResetChannel

SpecReset == InitIngest /\ [][NextReset]_vars

\* C30: when reset_channel has completed for a channel that had videos, no
\* row of videos, video_segments, brand_mentions, sponsor_mentions,
\* product_mentions or video_extraction_cache refers to a video of it.
C30_ResetLeavesNoRow ==
    "channel" \in DOMAIN last /\ last.video_ids # {} =>
       \A table \in {"videos", "video_segments", "brand_mentions", "sponsor_mentions",
                      "product_mentions", "video_extraction_cache"} :
          \A r \in Range(db[table]) : ChannelOf(r.video_id) # last.channel

====
